---------------------------- MODULE Spec2Model ----------------------------
(***************************************************************************)
(* VibeCheck search service: the /api/search handler of src/app/app.py,    *)
(* the neighborhood resolver of src/app/neighborhood_mapping.py, the       *)
(* restaurants table read by get_restaurant_details and the FAISS index    *)
(* with its parallel meta_ids array.                                       *)
(*                                                                         *)
(* Python values are modelled as follows.  An optional value (None or v)   *)
(* is the tuple <<>> or <<v>>.  Text is a TLA+ string; str.lower, str.strip*)
(* and the `in` substring test are computed character by character.  A     *)
(* price filter is a tagged record, one tag per Python type the handler    *)
(* distinguishes (None, int, list, str).                                   *)
(***************************************************************************)
EXTENDS Integers, Sequences, FiniteSets, TLC

(***************************************************************************)
(* Bounds of the model.                                                    *)
(***************************************************************************)
MaxRows == 2        \* rows of the FAISS index (= len(meta_ids))
MaxK == 2           \* largest explicit k / top_k a request carries

(***************************************************************************)
(* Optional values.                                                        *)
(***************************************************************************)
None == <<>>
Some(v) == <<v>>
IsNone(o) == o = <<>>
Get(o) == o[1]

(***************************************************************************)
(* Text helpers: str.lower(), str.strip(), `needle in haystack`.           *)
(***************************************************************************)
UpperChars == <<"A","B","C","D","E","F","G","H","I","J","K","L","M",
                "N","O","P","Q","R","S","T","U","V","W","X","Y","Z">>
LowerChars == <<"a","b","c","d","e","f","g","h","i","j","k","l","m",
                "n","o","p","q","r","s","t","u","v","w","x","y","z">>
Whitespace == {" ", "\t", "\n", "\r"}

LowerChar(c) ==
    IF \E i \in 1..Len(UpperChars) : UpperChars[i] = c
    THEN LowerChars[CHOOSE i \in 1..Len(UpperChars) : UpperChars[i] = c]
    ELSE c

RECURSIVE Lower(_)
Lower(s) ==
    IF Len(s) = 0 THEN ""
    ELSE LowerChar(SubSeq(s, 1, 1)) \o Lower(SubSeq(s, 2, Len(s)))

RECURSIVE LStrip(_)
LStrip(s) ==
    IF Len(s) > 0 /\ SubSeq(s, 1, 1) \in Whitespace
    THEN LStrip(SubSeq(s, 2, Len(s)))
    ELSE s

RECURSIVE RStrip(_)
RStrip(s) ==
    IF Len(s) > 0 /\ SubSeq(s, Len(s), Len(s)) \in Whitespace
    THEN RStrip(SubSeq(s, 1, Len(s) - 1))
    ELSE s

Strip(s) == RStrip(LStrip(s))

Contains(haystack, needle) ==
    \E i \in 1..(Len(haystack) - Len(needle) + 1) :
        SubSeq(haystack, i, i + Len(needle) - 1) = needle

(***************************************************************************)
(* neighborhood_mapping.py: NEIGHBORHOOD_VARIATIONS in insertion order     *)
(* (the order dict.items() iterates in), each entry <<variation,           *)
(* canonical>>.                                                            *)
(***************************************************************************)
NEIGHBORHOOD_VARIATIONS == <<
    <<"soho", "SoHo">>,
    <<"so ho", "SoHo">>,
    <<"south of houston", "SoHo">>,
    <<"tribeca", "Tribeca">>,
    <<"tri beca", "Tribeca">>,
    <<"triangle below canal", "Tribeca">>,
    <<"west village", "West Village">>,
    <<"greenwich village", "West Village">>,
    <<"the village", "West Village">>,
    <<"east village", "East Village">>,
    <<"ev", "East Village">>,
    <<"lower east side", "Lower East Side">>,
    <<"les", "Lower East Side">>,
    <<"lowereast", "Lower East Side">>,
    <<"upper east side", "Upper East Side">>,
    <<"ues", "Upper East Side">>,
    <<"uppereast", "Upper East Side">>,
    <<"upper west side", "Upper West Side">>,
    <<"uws", "Upper West Side">>,
    <<"upperwest", "Upper West Side">>,
    <<"hells kitchen", "Hell's Kitchen">>,
    <<"hell's kitchen", "Hell's Kitchen">>,
    <<"clinton", "Hell's Kitchen">>,
    <<"chelsea", "Chelsea">>,
    <<"gramercy", "Gramercy">>,
    <<"gramercy park", "Gramercy">>,
    <<"murray hill", "Murray Hill">>,
    <<"midtown", "Midtown">>,
    <<"midtown manhattan", "Midtown">>,
    <<"financial district", "Financial District">>,
    <<"fidi", "Financial District">>,
    <<"wall street", "Financial District">>,
    <<"battery park", "Battery Park City">>,
    <<"battery park city", "Battery Park City">>,
    <<"washington heights", "Washington Heights">>,
    <<"wash heights", "Washington Heights">>,
    <<"inwood", "Inwood">>,
    <<"harlem", "Central Harlem">>,
    <<"central harlem", "Central Harlem">>,
    <<"east harlem", "East Harlem">>,
    <<"spanish harlem", "East Harlem">>,
    <<"el barrio", "East Harlem">>,
    <<"morningside heights", "Morningside Heights">>,
    <<"morningside", "Morningside Heights">>
>>

\* Variant of normalize_neighborhood_query: among the variations the query
\* contains, the last in dict order wins.
normalize_neighborhood_query_last(query) ==
    LET query_lower == Strip(Lower(query))
        V == NEIGHBORHOOD_VARIATIONS
    IN  IF \E i \in 1..Len(V) : V[i][1] = query_lower
        THEN Some(V[CHOOSE i \in 1..Len(V) : V[i][1] = query_lower][2])
        ELSE IF \E i \in 1..Len(V) : Contains(query_lower, V[i][1])
        THEN Some(V[CHOOSE i \in 1..Len(V) :
                        /\ Contains(query_lower, V[i][1])
                        /\ \A j \in (i + 1)..Len(V) : ~Contains(query_lower, V[j][1])][2])
        ELSE None

\* normalize_neighborhood_query(query): the canonical name, or None.
normalize_neighborhood_query(query) ==
    LET query_lower == Strip(Lower(query))
        V == NEIGHBORHOOD_VARIATIONS
    IN  IF \E i \in 1..Len(V) : V[i][1] = query_lower
        THEN \* direct match: dict lookup
             Some(V[CHOOSE i \in 1..Len(V) : V[i][1] = query_lower][2])
        ELSE IF \E i \in 1..Len(V) : Contains(query_lower, V[i][1])
        THEN \* first variation, in dict order, contained in the query
             Some(V[CHOOSE i \in 1..Len(V) :
                        /\ Contains(query_lower, V[i][1])
                        /\ \A j \in 1..(i - 1) : ~Contains(query_lower, V[j][1])][2])
        ELSE None

(***************************************************************************)
(* The stored data the handler reads.                                      *)
(*   meta_ids     the ID array loaded at startup (app.py:83); row i of the *)
(*                FAISS index (0-based) belongs to meta_ids[i], kept here  *)
(*                as the 1-based sequence element i + 1.                   *)
(*   restaurants  the restaurants table, id -> None (no such row) or       *)
(*                Some(row); of a row only the columns the search filters  *)
(*                on are kept (neighborhood, price_level), each nullable.  *)
(* The request in progress and what the handler did for it.                *)
(*   phase        "idle" (no request) or "responded"                       *)
(*   request      the request received, None when idle                     *)
(*   response     the HTTP response, None when idle                        *)
(*   neighborhood_filter, candidates                                       *)
(*                the handler's locals of those names: the resolver's      *)
(*                result and the (index, distance) pairs the similarity    *)
(*                search returned                                          *)
(*   calls        the collaborators called, in call order                  *)
(*   searched     the k of every faiss_index.search call, in order         *)
(*   hydrated     the id of every get_restaurant_details call, in order    *)
(***************************************************************************)
VARIABLES meta_ids, restaurants, phase, request, response,
          neighborhood_filter, candidates, calls, searched, hydrated,
          \* encode_query: its arguments and locals
          text, image_file, boosted_text, text_vec, img_vec, combined,
          \* normalize_neighborhood_query: its argument and return value
          resolve_query, resolve_result,
          \* module import of app.py: the two index files and the outcome
          faiss_file, meta_file, service,
          \* the serving process: the index's dimensionality, the exception the
          \* handler caught, requests answered so far
          index_d, raised, served,
          \* get_restaurant_details: the id it was called with, what it returned,
          \* database connections open
          detail_id, detail_result, detail_pc, open_connections, detail_calls,
          \* the index builder: the restaurants fetched (each with its reviews and
          \* photos), the loop position, the loop's text and its two lists, the
          \* saved files, and a row looked up in them
          build_rows, build_i, build_text, embeddings, build_meta_ids, build_pc, saved_index, saved_meta, looked_up,
          \* concurrent requests: the locals of each handler thread
          handlers,
          \* the SerpApi scraper: the restaurant list, the checkpoint in memory and
          \* on disk, and the run's position in the list
          serp_list, serp_ckpt, serp_disk, serp_remaining, serp_pos, serp_errors, serp_pc,
          \* the Outscraper scraper: the restaurant list, the results and processed
          \* ids in memory, the results file and the checkpoint file, the loop
          \* position and the number of runs started
          out_list, out_results, out_processed, out_file, out_ckpt, out_pos, out_pc, out_runs

searchVars == <<meta_ids, restaurants, phase, request, response,
                neighborhood_filter, candidates, calls, searched, hydrated>>
encodeVars == <<text, image_file, boosted_text, text_vec, img_vec, combined>>
resolveVars == <<resolve_query, resolve_result>>
startupVars == <<faiss_file, meta_file, service>>

\* No call of encode_query is in progress.
EncodeIdle == /\ text = <<>>
              /\ image_file = <<>>
              /\ boosted_text = <<>>
              /\ text_vec = <<>>
              /\ img_vec = <<>>
              /\ combined = <<>>

\* No call of normalize_neighborhood_query is in progress.
ResolveIdle == /\ resolve_query = <<>>
               /\ resolve_result = <<>>

\* The module has been imported: both index files were loaded.
Started == /\ faiss_file = [exists |-> TRUE, size |-> 4096, valid |-> TRUE]
           /\ meta_file = [exists |-> TRUE, size |-> 4096, valid |-> TRUE]
           /\ service = "started"

\* Variable groups of the other specifications.
serveVars == <<index_d, raised, served>>
detailVars == <<detail_id, detail_result, detail_pc, open_connections, detail_calls>>
buildVars == <<build_rows, build_i, build_text, embeddings, build_meta_ids, build_pc, saved_index, saved_meta, looked_up>>
concVars == <<handlers>>
serpVars == <<serp_list, serp_ckpt, serp_disk, serp_remaining, serp_pos, serp_errors, serp_pc>>
outVars == <<out_list, out_results, out_processed, out_file, out_ckpt, out_pos, out_pc, out_runs>>
laterVars == <<serveVars, detailVars, buildVars, concVars, serpVars, outVars>>
serveFrame == <<detailVars, buildVars, concVars, serpVars, outVars>>
detailFrame == <<serveVars, buildVars, concVars, serpVars, outVars>>
buildFrame == <<serveVars, detailVars, concVars, serpVars, outVars>>
concFrame == <<serveVars, detailVars, buildVars, serpVars, outVars>>
serpFrame == <<serveVars, detailVars, buildVars, concVars, outVars>>
outFrame == <<serveVars, detailVars, buildVars, concVars, serpVars>>

\* A well-built index is loaded and no request has been answered.
ServeIdle == /\ index_d = 896
             /\ raised = <<>>
             /\ served = 0
\* No call of get_restaurant_details is in progress and no connection is open.
DetailIdle == /\ detail_id = <<>>
              /\ detail_result = <<>>
              /\ detail_pc = "idle"
              /\ open_connections = 0
              /\ detail_calls = 0
\* The index builder is not running.
BuildIdle == /\ build_rows = <<>>
             /\ build_i = 0
             /\ build_text = <<>>
             /\ embeddings = <<>>
             /\ build_meta_ids = <<>>
             /\ build_pc = "idle"
             /\ saved_index = <<>>
             /\ saved_meta = <<>>
             /\ looked_up = <<>>
\* No handler thread is running.
ConcIdle == /\ handlers = <<>>
\* The SerpApi scraper is not in use.
SerpIdle == /\ serp_list = <<>>
            /\ serp_ckpt = <<>>
            /\ serp_disk = <<>>
            /\ serp_remaining = <<>>
            /\ serp_pos = 0
            /\ serp_errors = 0
            /\ serp_pc = "off"
\* The Outscraper scraper is not in use.
OutIdle == /\ out_list = <<>>
           /\ out_results = <<>>
           /\ out_processed = {}
           /\ out_file = <<>>
           /\ out_ckpt = {}
           /\ out_pos = 0
           /\ out_pc = "off"
           /\ out_runs = 0
ServeRestIdle == DetailIdle /\ BuildIdle /\ ConcIdle /\ SerpIdle /\ OutIdle
DetailRestIdle == ServeIdle /\ BuildIdle /\ ConcIdle /\ SerpIdle /\ OutIdle
BuildRestIdle == ServeIdle /\ DetailIdle /\ ConcIdle /\ SerpIdle /\ OutIdle
ConcRestIdle == ServeIdle /\ DetailIdle /\ BuildIdle /\ SerpIdle /\ OutIdle
SerpRestIdle == ServeIdle /\ DetailIdle /\ BuildIdle /\ ConcIdle /\ OutIdle
OutRestIdle == ServeIdle /\ DetailIdle /\ BuildIdle /\ ConcIdle /\ SerpIdle

vars == <<searchVars, encodeVars, resolveVars, startupVars, laterVars>>

LaterIdle == ServeIdle /\ DetailIdle /\ BuildIdle /\ ConcIdle /\ SerpIdle /\ OutIdle

(***************************************************************************)
(* Value sets the model draws from.                                        *)
(***************************************************************************)
\* Restaurant ids differ from row numbers: row i (0-based) holds id 101 + i.
IdOfRow(i) == 100 + i + 1
Neighborhoods == {None, Some("SoHo"), Some("Tribeca")}
PriceLevels == {None, Some(2), Some(3)}
\* The stored rows drawn: every neighborhood and every price level occurs.
\* Rows having neither the neighborhood nor the price level that the requests
\* below ask for are left out: under each request such a row is filtered as a
\* drawn row is (as (SoHo, 3) by the price filter, as (None, 2) by the
\* neighborhood filter).
RestaurantRows ==
    {r \in [neighborhood : Neighborhoods, price_level : PriceLevels] :
        r.neighborhood = Some("SoHo") \/ r.price_level = Some(2)}
ScoreVals == {1, 2}
\* The distance FAISS writes beside a padding label -1: below every score.
PadScore == (CHOOSE s \in ScoreVals : \A t \in ScoreVals : s <= t) - 1
QueryTexts == {"", "generic query", "I want SoHo food"}
DEFAULT_K_JSON == 20
DEFAULT_K_FORM == 9
OVERFETCH == 5

NoPrice == [kind |-> "none"]
PriceInt(n) == [kind |-> "int", int |-> n]
PriceList(l) == [kind |-> "list", list |-> l]
PriceStr(s) == [kind |-> "str", str |-> s]

\* The requests drawn carry an explicit count: with the default counts (20, 9)
\* the walk over the candidates is the same, only longer.
\* A JSON body: {"query": .., "k": .., "price_level": ..}; no file upload.
JsonRequests ==
    {[is_json |-> TRUE, text |-> t, image |-> FALSE, k |-> k, price_level |-> p] :
        t \in QueryTexts,
        k \in {Some(n) : n \in 1..MaxK},
        p \in {NoPrice, PriceInt(2), PriceList(<<1, 2>>)}}

\* A multipart form: text, image, top_k, price_level (form values are strings).
FormRequests ==
    {[is_json |-> FALSE, text |-> t, image |-> i, k |-> k, price_level |-> p] :
        t \in QueryTexts,
        i \in BOOLEAN,
        k \in {Some(n) : n \in 1..MaxK},
        p \in {NoPrice, PriceStr("2")}}

Requests == JsonRequests \cup FormRequests

(***************************************************************************)
(* int(price_filter) for the values a well-formed request carries.         *)
(***************************************************************************)
Digits == <<"1", "2", "3", "4">>
IntOfStr(s) == CHOOSE n \in 1..Len(Digits) : Digits[n] = s
IntOf(price_filter) ==
    IF price_filter.kind = "int" THEN price_filter.int
    ELSE IntOfStr(price_filter.str)

InList(v, l) == \E i \in 1..Len(l) : l[i] = v

(***************************************************************************)
(* meta_ids[idx] with numpy indexing: idx is 0-based, a negative idx       *)
(* counts from the end (meta_ids[-1] is the last element).                 *)
(***************************************************************************)
MetaIdAt(idx) ==
    IF idx >= 0 THEN meta_ids[idx + 1] ELSE meta_ids[Len(meta_ids) + idx + 1]

\* Mutant of get_restaurant_details: a missing row yields an empty record.
get_restaurant_details_blank(restaurant_id) ==
    IF restaurant_id \notin DOMAIN restaurants \/ IsNone(restaurants[restaurant_id])
    THEN Some([id |-> restaurant_id, neighborhood |-> None, price_level |-> None])
    ELSE Some([id |-> restaurant_id,
               neighborhood |-> Get(restaurants[restaurant_id]).neighborhood,
               price_level |-> Get(restaurants[restaurant_id]).price_level])

(***************************************************************************)
(* get_restaurant_details(restaurant_id): None when the SELECT finds no    *)
(* row, otherwise the row as a dict (with its id).                         *)
(***************************************************************************)
get_restaurant_details(restaurant_id) ==
    IF restaurant_id \notin DOMAIN restaurants \/ IsNone(restaurants[restaurant_id])
    THEN None
    ELSE Some([id |-> restaurant_id,
               neighborhood |-> Get(restaurants[restaurant_id]).neighborhood,
               price_level |-> Get(restaurants[restaurant_id]).price_level])

\* The index file must be at least 1024 bytes (line 79): it holds a row.
Init == /\ \E n \in 1..MaxRows : meta_ids = [i \in 1..n |-> IdOfRow(i - 1)]
        /\ restaurants \in [{meta_ids[i] : i \in 1..Len(meta_ids)} ->
                               {None} \cup {Some(r) : r \in RestaurantRows}]
        /\ phase = "idle"
        /\ request = None
        /\ response = None
        /\ neighborhood_filter = None
        /\ candidates = <<>>
        /\ calls = <<>>
        /\ searched = <<>>
        /\ hydrated = <<>>
        /\ EncodeIdle
        /\ ResolveIdle
        /\ Started
        /\ LaterIdle

(***************************************************************************)
(* faiss_index.search(query_vec, k) on a flat inner-product index: the k   *)
(* rows of highest score in descending score order; when the index holds   *)
(* fewer than k rows the output is padded with label -1.  The scores       *)
(* depend on the embedding models, which are not part of the repository:   *)
(* a query may score the rows in any way, and ties may come in any order.  *)
(* A ranking is the sequence of all rows, as (idx, distance) pairs, in     *)
(* descending score order.                                                 *)
(***************************************************************************)
RankingsOf(n) ==
    {[j \in 1..n |-> [idx |-> order[j], distance |-> score[order[j]]]] :
        <<order, score>> \in
            {os \in [1..n -> 0..(n - 1)] \X [0..(n - 1) -> ScoreVals] :
                /\ \A a, b \in 1..n : a # b => os[1][a] # os[1][b]
                /\ \A a \in 1..(n - 1) : os[2][os[1][a]] >= os[2][os[1][a + 1]]}}

AllRankings == [n \in 1..MaxRows |-> RankingsOf(n)]

Rankings == AllRankings[Len(meta_ids)]

PadCandidate == [idx |-> 0 - 1, distance |-> PadScore]

faiss_index_search(ranking, k) ==
    [j \in 1..k |-> IF j <= Len(ranking) THEN ranking[j] ELSE PadCandidate]

(***************************************************************************)
(* search(), lines 356-372: the request's fields.                          *)
(***************************************************************************)
QueryText(req) == req.text
QueryImage(req) == IF req.is_json THEN FALSE ELSE req.image
TopK(req) ==
    IF IsNone(req.k)
    THEN (IF req.is_json THEN DEFAULT_K_JSON ELSE DEFAULT_K_FORM)
    ELSE Get(req.k)
PriceFilter(req) == req.price_level

\* Mutant of Rejected: a request is rejected unless it has text.
RejectedNoText(req) == QueryText(req) = ""

\* line 371: if not query_text and not query_image
Rejected(req) == QueryText(req) = "" /\ ~QueryImage(req)

\* Mutant of SearchK: a price filter triggers the over-fetch as well.
SearchKAnyFilter(nf, pf, top_k) ==
    IF ~IsNone(nf) \/ pf.kind # "none" THEN top_k * OVERFETCH ELSE top_k

\* line 388: search_k = top_k * 5 if neighborhood_filter else top_k
SearchK(nf, pf, top_k) == IF ~IsNone(nf) THEN top_k * OVERFETCH ELSE top_k

\* line 379: neighborhood_filter = normalize_neighborhood_query(query_text),
\* tabulated over the query texts the model draws.
NeighborhoodOf == [t \in QueryTexts |-> normalize_neighborhood_query(t)]

(***************************************************************************)
(* search(), lines 398-412: the two filters on a hydrated record.          *)
(***************************************************************************)
\* Mutant of PassesNeighborhood: records without a neighborhood pass.
PassesNeighborhoodOrNull(details, nf) ==
    IsNone(nf) \/ IsNone(details.neighborhood) \/ details.neighborhood = nf

PassesNeighborhood(details, nf) ==
    IsNone(nf) \/ details.neighborhood = nf

\* Mutant of PassesPrice: records without a price level pass.
PassesPriceOrNull(details, pf) ==
    \/ pf.kind = "none"
    \/ IsNone(details.price_level)
    \/ IF pf.kind = "list"
       THEN InList(Get(details.price_level), pf.list)
       ELSE details.price_level = Some(IntOf(pf))

PassesPrice(details, pf) ==
    IF pf.kind = "none" THEN TRUE
    ELSE IF pf.kind = "list"
    THEN ~IsNone(details.price_level) /\ InList(Get(details.price_level), pf.list)
    ELSE details.price_level = Some(IntOf(pf))

\* Mutant of WithScore: the score is stored with its sign flipped.
WithScoreFlipped(details, distance) ==
    [id |-> details.id, neighborhood |-> details.neighborhood,
     price_level |-> details.price_level, similarity_score |-> 0 - distance]

\* line 414: details["similarity_score"] = float(distance)
WithScore(details, distance) ==
    [id |-> details.id, neighborhood |-> details.neighborhood,
     price_level |-> details.price_level, similarity_score |-> distance]

\* Mutant of Enough: the loop stops one result late.
EnoughLate(results, top_k) == Len(results) > top_k

\* line 418: if len(results) >= top_k: break
Enough(results, top_k) == Len(results) >= top_k

(***************************************************************************)
(* search(), lines 392-419: the loop over zip(indices[0], distances[0]),   *)
(* from candidate j on, with the results and the hydration calls so far.   *)
(***************************************************************************)
\* Mutant of FilterLoop: a candidate that is skipped ends the scan (break
\* where the code says continue).
RECURSIVE FilterLoopBreakOnSkip(_, _, _, _, _, _, _)
FilterLoopBreakOnSkip(cands, j, results, hyd, nf, pf, top_k) ==
    IF j > Len(cands) THEN [results |-> results, hydrated |-> hyd]
    ELSE LET restaurant_id == MetaIdAt(cands[j].idx)
             details == get_restaurant_details(restaurant_id)
             kept == /\ ~IsNone(details)
                     /\ PassesNeighborhood(Get(details), nf)
                     /\ PassesPrice(Get(details), pf)
             results2 ==
                 IF kept
                 THEN Append(results, WithScore(Get(details), cands[j].distance))
                 ELSE results
         IN  IF ~kept \/ Enough(results2, top_k)
             THEN [results |-> results2, hydrated |-> Append(hyd, restaurant_id)]
             ELSE FilterLoopBreakOnSkip(cands, j + 1, results2,
                                        Append(hyd, restaurant_id), nf, pf, top_k)

RECURSIVE FilterLoop(_, _, _, _, _, _, _)
FilterLoop(cands, j, results, hyd, nf, pf, top_k) ==
    IF j > Len(cands) THEN [results |-> results, hydrated |-> hyd]
    ELSE LET restaurant_id == MetaIdAt(cands[j].idx)
             details == get_restaurant_details(restaurant_id)
             \* reaches line 414: hydrated, and no filter said `continue`
             kept == /\ ~IsNone(details)
                     /\ PassesNeighborhood(Get(details), nf)
                     /\ PassesPrice(Get(details), pf)
             results2 ==
                 IF kept
                 THEN Append(results, WithScore(Get(details), cands[j].distance))
                 ELSE results
         IN  IF kept /\ Enough(results2, top_k)
             THEN [results |-> results2, hydrated |-> Append(hyd, restaurant_id)]
             ELSE FilterLoop(cands, j + 1, results2, Append(hyd, restaurant_id),
                             nf, pf, top_k)

\* Mutant of Respond: an empty result list is answered as "not found".
RespondNotFoundIfEmpty(results) ==
    IF results = <<>>
    THEN Some([status |-> 404, error |-> "Restaurant not found"])
    ELSE Some([status |-> 200, results |-> results])

\* line 421: return jsonify({"results": results})
Respond(results) == Some([status |-> 200, results |-> results])

(***************************************************************************)
(* POST /api/search: search(), lines 353-425.                              *)
(***************************************************************************)
Search ==
    /\ phase = "idle"
    /\ \E req \in Requests :
         /\ request' = Some(req)
         /\ IF Rejected(req)
            THEN /\ response' = Some([status |-> 400,
                                      error |-> "Please provide text or image query"])
                 /\ neighborhood_filter' = None
                 /\ candidates' = <<>>
                 /\ calls' = <<>>
                 /\ searched' = <<>>
                 /\ hydrated' = <<>>
            ELSE LET nf == NeighborhoodOf[QueryText(req)]
                     top_k == TopK(req)
                     search_k == SearchK(nf, PriceFilter(req), top_k)
                 IN  \E ranking \in Rankings :
                       LET cands == faiss_index_search(ranking, search_k)
                           out == FilterLoop(cands, 1, <<>>, <<>>, nf,
                                             PriceFilter(req), top_k)
                       IN  /\ neighborhood_filter' = nf
                           /\ candidates' = cands
                           /\ searched' = <<search_k>>
                           /\ hydrated' = out.hydrated
                           /\ calls' = <<"normalize_neighborhood_query",
                                         "encode_query", "faiss_index.search">>
                                       \o [h \in 1..Len(out.hydrated) |->
                                              "get_restaurant_details"]
                           /\ response' = Respond(out.results)
    /\ phase' = "responded"
    /\ UNCHANGED <<meta_ids, restaurants, encodeVars, resolveVars, startupVars, laterVars>>

(***************************************************************************)
(* The response has been sent; the request's locals are gone.              *)
(***************************************************************************)
Return ==
    /\ phase = "responded"
    /\ phase' = "idle"
    /\ request' = None
    /\ response' = None
    /\ neighborhood_filter' = None
    /\ candidates' = <<>>
    /\ calls' = <<>>
    /\ searched' = <<>>
    /\ hydrated' = <<>>
    /\ UNCHANGED <<meta_ids, restaurants, encodeVars, resolveVars, startupVars, laterVars>>

Next == Search \/ Return

Spec == Init /\ [][Next]_vars

(***************************************************************************)
(* Vocabulary of the properties below.  A property speaks of the request   *)
(* just answered (phase = "responded"); what the claims call               *)
(* requested_count is the request's k / top_k.                             *)
(***************************************************************************)
Req == Get(request)
Resp == Get(response)
Responded == phase = "responded"
HasQuery == Responded /\ (Req.text # "" \/ (~Req.is_json /\ Req.image))
Answered == Responded /\ Resp.status = 200
RequestedCount == Get(Req.k)

\* The record stored for the restaurant a returned (idx, distance) entry names.
StoredFor(c) == restaurants[MetaIdAt(c.idx)]

\* The price filter as the set of price levels it admits (none: no filter).
PriceFilterActive == Req.price_level.kind # "none"
AdmittedPrices ==
    IF Req.price_level.kind = "list"
    THEN {Req.price_level.list[i] : i \in 1..Len(Req.price_level.list)}
    ELSE IF Req.price_level.kind = "int" THEN {Req.price_level.int}
    ELSE IF Req.price_level.kind = "str"
    THEN {n \in 1..4 : Digits[n] = Req.price_level.str}
    ELSE {}

\* The stored row exists and satisfies the neighborhood and price filters.
RowQualifies(row) ==
    /\ ~IsNone(row)
    /\ (IsNone(NeighborhoodOf[Req.text])
          \/ Get(row).neighborhood = NeighborhoodOf[Req.text])
    /\ (PriceFilterActive =>
          /\ ~IsNone(Get(row).price_level)
          /\ Get(Get(row).price_level) \in AdmittedPrices)

\* Positions of the returned candidate list whose restaurant qualifies.
QualifyingPositions ==
    {j \in 1..Len(candidates) : RowQualifies(StoredFor(candidates[j]))}

\* The i-th qualifying position, in rank order.
NthQualifying(i) ==
    CHOOSE j \in QualifyingPositions :
        Cardinality({m \in QualifyingPositions : m <= j}) = i

\* The response record of the candidate at position j.
RecordOf(j) ==
    [id |-> MetaIdAt(candidates[j].idx),
     neighborhood |-> Get(StoredFor(candidates[j])).neighborhood,
     price_level |-> Get(StoredFor(candidates[j])).price_level,
     similarity_score |-> candidates[j].distance]

Min2(a, b) == IF a <= b THEN a ELSE b

(***************************************************************************)
(* C1.  The response list is exactly the first requested_count entries of  *)
(* the candidate list, in the rank order the similarity search returned    *)
(* them, whose restaurant hydrates and passes every active filter: it has  *)
(* min(requested_count, number of qualifying candidates) records, and its  *)
(* i-th record is the i-th qualifying candidate with that candidate's      *)
(* score.                                                                  *)
(***************************************************************************)
C1_ExactlyFirstQualifying ==
    HasQuery =>
        /\ Answered
        /\ Len(Resp.results) = Min2(RequestedCount, Cardinality(QualifyingPositions))
        /\ \A i \in 1..Len(Resp.results) : Resp.results[i] = RecordOf(NthQualifying(i))

\* A request answered with the second-ranked candidate only: the first did
\* not qualify, and a later qualifying candidate was left out by the count.
C1_Witness ==
    /\ Answered
    /\ RequestedCount = 1
    /\ Len(candidates) >= 2
    /\ 1 \notin QualifyingPositions
    /\ Cardinality(QualifyingPositions) >= 2
    /\ Len(Resp.results) = 1
    /\ Resp.results[1].id = MetaIdAt(candidates[NthQualifying(1)].idx)

(***************************************************************************)
(* C2.  The number of candidates requested from the similarity search is   *)
(* 5 x requested_count when the resolver finds a neighborhood in the query *)
(* text and exactly requested_count otherwise, whatever the price filter.  *)
(***************************************************************************)
C2_OverFetchOnlyForNeighborhood ==
    HasQuery =>
        /\ searched =
             <<IF IsNone(NeighborhoodOf[Req.text])
               THEN RequestedCount
               ELSE 5 * RequestedCount>>
        /\ Len(candidates) = searched[1]

\* A query naming a neighborhood, with a price filter and k = 2: 10 requested.
C2_Witness ==
    /\ Answered
    /\ NeighborhoodOf[Req.text] = Some("SoHo")
    /\ PriceFilterActive
    /\ RequestedCount = 2
    /\ searched = <<10>>

(***************************************************************************)
(* C3 as stated.  Whenever the index holds at least requested_count        *)
(* restaurants that hydrate and satisfy the active filters, the response   *)
(* holds requested_count records.                                          *)
(***************************************************************************)
QualifyingRows ==
    {r \in 1..Len(meta_ids) : RowQualifies(restaurants[meta_ids[r]])}

C3_EnoughWheneverIndexHasEnough ==
    (HasQuery /\ Cardinality(QualifyingRows) >= RequestedCount) =>
        (Answered /\ Len(Resp.results) = RequestedCount)

(***************************************************************************)
(* C3 as amended.  Whenever at least requested_count of the entries the    *)
(* one similarity query returned hydrate and satisfy the active filters,   *)
(* the response holds requested_count records, and the similarity search   *)
(* was queried once; rows ranked below the entries returned are never      *)
(* looked at.                                                              *)
(***************************************************************************)
C3_EnoughWheneverCandidatesHaveEnough ==
    (HasQuery /\ Cardinality(QualifyingPositions) >= RequestedCount) =>
        /\ Answered
        /\ Len(Resp.results) = RequestedCount
        /\ Len(searched) = 1
        /\ Len(hydrated) <= Len(candidates)

\* Two qualifying candidates among those returned, two wanted, two delivered,
\* after a candidate that did not qualify.
C3_Witness ==
    /\ Answered
    /\ RequestedCount = 2
    /\ Cardinality(QualifyingPositions) >= 2
    /\ 1 \notin QualifyingPositions
    /\ Len(Resp.results) = 2

(***************************************************************************)
(* C4.  When the resolver finds a neighborhood in the query, every record  *)
(* of the response has exactly that canonical name as its neighborhood.    *)
(***************************************************************************)
C4_OnlyResolvedNeighborhood ==
    (HasQuery /\ ~IsNone(NeighborhoodOf[Req.text])) =>
        /\ Answered
        /\ \A i \in 1..Len(Resp.results) :
              /\ ~IsNone(Resp.results[i].neighborhood)
              /\ Get(Resp.results[i].neighborhood) = Get(NeighborhoodOf[Req.text])
              /\ Get(restaurants[Resp.results[i].id]).neighborhood
                    = NeighborhoodOf[Req.text]

\* A SoHo query: a Tribeca candidate ranked first was hydrated and left
\* out, and a SoHo restaurant ranked after it was returned.
C4_Witness ==
    /\ Answered
    /\ NeighborhoodOf[Req.text] = Some("SoHo")
    /\ Len(Resp.results) >= 1
    /\ ~IsNone(StoredFor(candidates[1]))
    /\ Get(StoredFor(candidates[1])).neighborhood = Some("Tribeca")
    /\ Resp.results[1].neighborhood = Some("SoHo")

(***************************************************************************)
(* C5.  Under a price filter every returned record has a price_level, and  *)
(* it is the filter's value or one of the filter's values.  Without a      *)
(* price filter the price_level excludes nothing: every candidate scanned  *)
(* that hydrates and passes the neighborhood filter is returned.           *)
(***************************************************************************)
HydratesInNeighborhood(j) ==
    /\ ~IsNone(StoredFor(candidates[j]))
    /\ (IsNone(neighborhood_filter)
          \/ Get(StoredFor(candidates[j])).neighborhood = neighborhood_filter)

C5_PriceFilter ==
    HasQuery =>
        /\ Answered
        /\ PriceFilterActive =>
              \A i \in 1..Len(Resp.results) :
                  /\ ~IsNone(Resp.results[i].price_level)
                  /\ Get(Resp.results[i].price_level) \in AdmittedPrices
                  /\ restaurants[Resp.results[i].id] # None
                  /\ Get(restaurants[Resp.results[i].id]).price_level
                        = Resp.results[i].price_level
        /\ ~PriceFilterActive =>
              Len(Resp.results) =
                  Cardinality({j \in 1..Len(hydrated) : HydratesInNeighborhood(j)})

\* Filter [1, 2]: a candidate without price_level, ranked first, was
\* scanned and left out; the one of price_level 2 after it was returned.
C5_Witness ==
    /\ Answered
    /\ Req.price_level = PriceList(<<1, 2>>)
    /\ Len(hydrated) = 2
    /\ ~IsNone(StoredFor(candidates[1]))
    /\ Get(StoredFor(candidates[1])).price_level = None
    /\ Len(Resp.results) = 1
    /\ Resp.results[1].price_level = Some(2)

(***************************************************************************)
(* C6.  For a request with requested_count >= 1 the response never holds   *)
(* more than requested_count records, and once requested_count records are *)
(* collected nothing more is hydrated: the last candidate hydrated is the  *)
(* one whose record was appended last.                                     *)
(***************************************************************************)
C6_StopsAtRequestedCount ==
    (HasQuery /\ RequestedCount >= 1) =>
        /\ Answered
        /\ Len(Resp.results) <= RequestedCount
        /\ Len(Resp.results) = RequestedCount =>
              /\ Len(hydrated) >= 1
              /\ Len(hydrated) \in QualifyingPositions
              /\ Resp.results[RequestedCount] = RecordOf(Len(hydrated))
              /\ Cardinality({j \in QualifyingPositions : j <= Len(hydrated)})
                    = RequestedCount

\* Over-fetch in force (ten candidates for k = 2) and the scan stopped at
\* the second candidate, leaving eight unhydrated.
C6_Witness ==
    /\ Answered
    /\ RequestedCount = 2
    /\ Len(candidates) = 10
    /\ Len(Resp.results) = 2
    /\ Len(hydrated) = 2

(***************************************************************************)
(* C7.  The response is a subsequence of the candidate list, each record   *)
(* carrying the raw score of its own candidate, and the scores of the      *)
(* response are non-increasing from first to last.                         *)
(***************************************************************************)
RECURSIVE IsSubsequenceFrom(_, _)
IsSubsequenceFrom(i, j) ==
    IF i > Len(Resp.results) THEN TRUE
    ELSE IF j > Len(candidates) THEN FALSE
    ELSE IF /\ Resp.results[i].id = MetaIdAt(candidates[j].idx)
            /\ Resp.results[i].similarity_score = candidates[j].distance
    THEN IsSubsequenceFrom(i + 1, j + 1)
    ELSE IsSubsequenceFrom(i, j + 1)

C7_RankOrderPreserved ==
    HasQuery =>
        /\ Answered
        /\ IsSubsequenceFrom(1, 1)
        /\ \A i \in 1..(Len(Resp.results) - 1) :
              Resp.results[i].similarity_score >= Resp.results[i + 1].similarity_score

\* Two index rows returned as two records, the better-scored one first.
C7_Witness ==
    /\ Answered
    /\ Len(candidates) = 2
    /\ \A j \in 1..2 : candidates[j].idx >= 0
    /\ Len(Resp.results) = 2
    /\ Resp.results[1].similarity_score > Resp.results[2].similarity_score

(***************************************************************************)
(* C8.  The similarity search is called exactly once for a request that    *)
(* carries a query; the filter pass hydrates only entries of the list that *)
(* call returned, in order; and the response is a success also when fewer  *)
(* than requested_count records, or none, survive.                         *)
(***************************************************************************)
SearchCalls == {c \in 1..Len(calls) : calls[c] = "faiss_index.search"}

C8_OneSearchShortIsSuccess ==
    HasQuery =>
        /\ Cardinality(SearchCalls) = 1
        /\ Len(searched) = 1
        /\ Len(hydrated) <= Len(candidates)
        /\ \A j \in 1..Len(hydrated) : hydrated[j] = MetaIdAt(candidates[j].idx)
        /\ Resp.status = 200
        /\ Len(Resp.results) < RequestedCount => Len(hydrated) = Len(candidates)

\* Every candidate of the one call was scanned and none survived: the
\* response is the empty list, status 200.
C8_Witness ==
    /\ HasQuery
    /\ Resp.status = 200
    /\ Resp.results = <<>>
    /\ Len(candidates) >= 2
    /\ Len(hydrated) = Len(candidates)
    /\ Cardinality(SearchCalls) = 1

(***************************************************************************)
(* C9.  A candidate whose id has no stored restaurant is skipped: it is    *)
(* not in the response, it does not count toward requested_count, the scan *)
(* goes on to the next candidate, and the request still succeeds.          *)
(***************************************************************************)
ScannedWithRecord == {j \in 1..Len(hydrated) : ~IsNone(restaurants[hydrated[j]])}

C9_MissingRecordSkipped ==
    HasQuery =>
        /\ Resp.status = 200
        /\ \A i \in 1..Len(Resp.results) : ~IsNone(restaurants[Resp.results[i].id])
        /\ Len(Resp.results) <= Cardinality(ScannedWithRecord)
        /\ \A j \in 1..Len(hydrated) :
              (IsNone(restaurants[hydrated[j]]) /\ j < Len(candidates))
                  => Len(hydrated) >= j + 1

\* The first candidate has no stored record; the scan went on and the
\* second candidate was returned, k = 1.
C9_Witness ==
    /\ Answered
    /\ RequestedCount = 1
    /\ Len(hydrated) = 2
    /\ IsNone(restaurants[hydrated[1]])
    /\ Len(Resp.results) = 1
    /\ Resp.results[1].id = hydrated[2]

C10_ImageOnlyAccepted ==
    /\ Responded
    /\ Req.text = ""
    /\ ~Req.is_json
    /\ Req.image
    /\ Resp.status = 200
    /\ SubSeq(calls, 1, 3) = <<"normalize_neighborhood_query", "encode_query",
                               "faiss_index.search">>

(***************************************************************************)
(* encode_query (src/app/app.py): the lexical booster followed by the text *)
(* and image encoders.  A vector is a sequence of numbers; the query       *)
(* vector is a matrix of one row.                                          *)
(***************************************************************************)
MaxTokens == 2      \* most whitespace-delimited tokens in a drawn query text

D_TEXT == 384       \* all-MiniLM-L6-v2 sentence embedding
D_IMAGE == 512      \* CLIP ViT-B/32 image embedding

\* Keyword lexicons of the booster, as written in encode_query.
CUISINE_KEYWORDS ==
    {"chinese", "japanese", "korean", "thai", "vietnamese", "indian",
     "filipino", "indonesian", "malaysian", "burmese", "italian", "french",
     "spanish", "greek", "german", "portuguese", "polish", "russian",
     "mexican", "peruvian", "brazilian", "colombian", "argentinian",
     "cuban", "middle eastern", "lebanese", "turkish", "moroccan",
     "ethiopian", "israeli", "mediterranean", "pizza", "sushi", "burger",
     "bbq", "steakhouse", "seafood", "ramen", "pho", "tapas", "dim sum",
     "curry", "pasta", "noodles", "dumplings", "bagels", "deli", "halal",
     "soul food", "cajun", "creole", "vegetarian", "vegan"}

VIBE_KEYWORDS ==
    {"romantic", "cozy", "intimate", "date", "candlelit", "ambiance",
     "atmosphere", "date night", "quiet", "elegant", "fancy", "casual",
     "fine dining", "lively", "energetic", "relaxed", "chill", "vibey",
     "loud", "noisy", "buzzing", "packed", "trendy", "hip", "modern",
     "rustic", "charming", "spacious", "bright", "dark", "dimly",
     "instagram", "instagrammable", "outdoor", "patio", "rooftop",
     "garden", "sidewalk", "alfresco", "bar seating", "counter seating",
     "fusion", "authentic", "traditional", "homestyle", "family-style",
     "hidden gem", "local favorite", "hole in the wall", "group", "solo",
     "family", "kids", "friends", "brunch", "late night", "quick", "fast",
     "happy hour"}

PRICE_KEYWORDS ==
    {"cheap", "affordable", "budget", "inexpensive", "expensive", "pricey",
     "upscale", "high-end", "value", "deal", "splurge", "reasonable"}

\* str.split(): the maximal runs of non-whitespace characters, in order.
RECURSIVE SplitFrom(_, _, _, _)
SplitFrom(s, i, cur, out) ==
    IF i > Len(s)
    THEN IF cur = "" THEN out ELSE Append(out, cur)
    ELSE LET c == SubSeq(s, i, i)
         IN  IF c \in Whitespace
             THEN SplitFrom(s, i + 1, "", IF cur = "" THEN out ELSE Append(out, cur))
             ELSE SplitFrom(s, i + 1, cur \o c, out)

Split(s) == SplitFrom(s, 1, "", <<>>)

\* sep.join(words)
RECURSIVE Join(_, _)
Join(words, sep) ==
    IF Len(words) = 0 THEN ""
    ELSE IF Len(words) = 1 THEN words[1]
    ELSE words[1] \o sep \o Join(Tail(words), sep)

\* [w for w in words if w in keywords]
KeywordsIn(words, keywords) == SelectSeq(words, LAMBDA w : w \in keywords)

\* `text or ""`
OrEmpty(t) == IF IsNone(t) THEN "" ELSE Get(t)

\* Variants of AppendWords: one appends even an empty list, one puts the
\* words in front of the text.
AppendWordsAlways(s, words) == s \o " " \o Join(words, " ")
AppendWordsInFront(s, words) ==
    IF Len(words) > 0 THEN Join(words, " ") \o " " \o s ELSE s

\* boosted_text + " " + " ".join(words) when words is non-empty
AppendWords(s, words) == IF Len(words) > 0 THEN s \o " " \o Join(words, " ") ELSE s

\* Variant of CuisineRepeat: the list once.
CuisineOnce(cuisine_words) == cuisine_words

\* cuisine_words * 2, the list repeated
CuisineRepeat(cuisine_words) == cuisine_words \o cuisine_words

\* words = boosted_text.lower().split()
WordsOf(s) == Split(Lower(s))

\* The lexical booster: the text handed to the sentence encoder.
BoostedText(t) ==
    LET boosted == OrEmpty(t)
    IN  IF boosted = "" THEN boosted
        ELSE LET words == WordsOf(boosted)
                 cuisine_words == KeywordsIn(words, CUISINE_KEYWORDS)
                 vibe_words == KeywordsIn(words, VIBE_KEYWORDS)
                 price_words == KeywordsIn(words, PRICE_KEYWORDS)
             IN  AppendWords(AppendWords(AppendWords(boosted,
                     CuisineRepeat(cuisine_words)), vibe_words), price_words)

\* Vectors.
Zeros(n) == [i \in 1..n |-> 0]
Unit(n, j) == [i \in 1..n |-> IF i = j THEN 1 ELSE 0]

\* text_model.encode(s, normalize_embeddings=True): a fixed function of the
\* text it is handed, of unit length and D_TEXT components.  The network is
\* stood for by the unit vector whose hot component the text's length picks.
text_model_encode(s) == Unit(D_TEXT, 1 + (Len(s) % D_TEXT))

\* Uploaded image bytes: the empty byte string, or one chunk naming what the
\* bytes hold.  "corrupt" makes Image.open raise, "unsupported" makes
\* clip_preprocess raise, "huge" makes clip_model.encode_image raise; the two
\* photos embed to two different unit vectors.
ImageBytes == {<<>>, <<"corrupt">>, <<"unsupported">>, <<"huge">>,
               <<"photoA">>, <<"photoB">>}
USE_IMAGE_SEARCH == TRUE

\* The body of the try block raises.
ImageRaises(b) == b[1] \in {"corrupt", "unsupported", "huge"}

\* clip_model.encode_image(...) divided by its norm, as a numpy row.
clip_encode(b) == Unit(D_IMAGE, IF b[1] = "photoA" THEN 1 ELSE D_IMAGE)

\* `if image_file and USE_IMAGE_SEARCH`: None and b"" are both falsy.
UsesImage(img) == ~IsNone(img) /\ Len(Get(img)) > 0 /\ USE_IMAGE_SEARCH

\* Variants of ImageVec: one lets a failed image through as an embedding,
\* one has no zero default.
ImageVecNoFallback(img) ==
    IF UsesImage(img) THEN clip_encode(Get(img)) ELSE Zeros(D_IMAGE)
ImageVecNoZeroDefault(img) ==
    IF UsesImage(img)
    THEN IF ImageRaises(Get(img)) THEN Zeros(D_IMAGE) ELSE clip_encode(Get(img))
    ELSE Unit(D_IMAGE, 1)

\* The image half of the query vector.
ImageVec(img) ==
    IF UsesImage(img)
    THEN IF ImageRaises(Get(img)) THEN Zeros(D_IMAGE) ELSE clip_encode(Get(img))
    ELSE Zeros(D_IMAGE)

\* Variant of Combine: the image segment first.
CombineImageFirst(tv, iv) == <<iv \o tv>>

\* np.concatenate([text_vec, img_vec])[None, :]
Combine(tv, iv) == <<tv \o iv>>

encode_query(t, img) ==
    Combine(text_model_encode(BoostedText(t)), ImageVec(img))

\* Texts a call is drawn with: up to MaxTokens words joined by single spaces.
QueryWords == {"Pho", "pho,", "bbq", "hip", "deal", "date", "night", "dim", "sum"}

RECURSIVE TextsOf(_)
TextsOf(n) ==
    IF n = 0 THEN {""}
    ELSE LET shorter == TextsOf(n - 1)
         IN  shorter \cup QueryWords
                     \cup {s \o " " \o w : s \in shorter \ {""}, w \in QueryWords}

EncodeTexts == TextsOf(MaxTokens)
TextArgs == {None} \cup {Some(t) : t \in EncodeTexts}
ImageArgs == {None} \cup {Some(b) : b \in ImageBytes}

\* The booster's result for every drawn text.
BoostedOf == [t \in TextArgs |-> BoostedText(t)]

\* The search variables while no request is being handled.
SearchIdle == /\ meta_ids = <<IdOfRow(0)>>
              /\ restaurants = [id \in {IdOfRow(0)} |-> None]
              /\ phase = "idle"
              /\ request = None
              /\ response = None
              /\ neighborhood_filter = None
              /\ candidates = <<>>
              /\ calls = <<>>
              /\ searched = <<>>
              /\ hydrated = <<>>

EncodeInit == SearchIdle /\ EncodeIdle /\ ResolveIdle /\ Started /\ LaterIdle

\* One call of encode_query(text, image_file).
EncodeQuery ==
    /\ IsNone(combined)
    /\ \E t \in TextArgs, img \in ImageArgs :
         /\ text' = t
         /\ image_file' = img
         /\ boosted_text' = Some(BoostedOf[t])
         /\ text_vec' = Some(text_model_encode(BoostedOf[t]))
         /\ img_vec' = Some(ImageVec(img))
         /\ combined' = Some(Combine(text_model_encode(BoostedOf[t]), ImageVec(img)))
    /\ UNCHANGED <<searchVars, resolveVars, startupVars, laterVars>>

\* The call has returned; its locals are gone.
EncodeReturn ==
    /\ ~IsNone(combined)
    /\ text' = None
    /\ image_file' = None
    /\ boosted_text' = None
    /\ text_vec' = None
    /\ img_vec' = None
    /\ combined' = None
    /\ UNCHANGED <<searchVars, resolveVars, startupVars, laterVars>>

EncodeNext == EncodeQuery \/ EncodeReturn

SpecEncode == EncodeInit /\ [][EncodeNext]_vars


(***************************************************************************)
(* Vocabulary of the encoder properties.                                   *)
(***************************************************************************)
Encoded == ~IsNone(combined)
QueryRow == Get(combined)[1]
TextSegment == SubSeq(QueryRow, 1, D_TEXT)
ImageSegment == SubSeq(QueryRow, D_TEXT + 1, Len(QueryRow))
AllZero(v) == \A i \in 1..Len(v) : v[i] = 0
ImageSupplied == ~IsNone(image_file) /\ Len(Get(image_file)) > 0
ImageFailed == ImageSupplied /\ Get(image_file)[1] \in {"corrupt", "unsupported", "huge"}

C12_NoImageZeroSegment ==
    (Encoded /\ ~ImageSupplied) =>
        /\ Len(ImageSegment) = D_IMAGE
        /\ AllZero(ImageSegment)

C12_Witness ==
    /\ Encoded
    /\ image_file = Some(<<>>)
    /\ text = Some("hip bbq")
    /\ AllZero(ImageSegment)

\* C13: for every combination of inputs encode_query returns a matrix of one
\* row with exactly D_TEXT + D_IMAGE = 896 components, the text encoder's
\* output first and the image segment second.
C13_ShapeTextThenImage ==
    Encoded =>
        /\ Len(Get(combined)) = 1
        /\ Len(QueryRow) = 896
        /\ D_TEXT + D_IMAGE = 896
        /\ SubSeq(QueryRow, 1, D_TEXT) = Get(text_vec)
        /\ SubSeq(QueryRow, D_TEXT + 1, D_TEXT + D_IMAGE) = Get(img_vec)
        /\ Len(Get(text_vec)) = D_TEXT
        /\ Len(Get(img_vec)) = D_IMAGE

C13_Witness ==
    /\ Encoded
    /\ image_file = Some(<<"photoB">>)
    /\ text = Some("dim sum")
    /\ QueryRow[D_TEXT + D_IMAGE] = 1
    /\ \E i \in 1..D_TEXT : QueryRow[i] = 1


(***************************************************************************)
(* Vocabulary of the booster properties.                                   *)
(***************************************************************************)
Lexicon == CUISINE_KEYWORDS \cup VIBE_KEYWORDS \cup PRICE_KEYWORDS
\* The lexicon entries of more than one word.
Phrases == {p \in Lexicon : Len(Split(p)) > 1}
\* The lowercased tokens of the input text and of the boosted text.
InputTokens == WordsOf(OrEmpty(text))
BoostedTokens == WordsOf(Get(boosted_text))
Occurrences(w, tokens) == Cardinality({i \in 1..Len(tokens) : tokens[i] = w})
TokenSet(tokens) == {tokens[i] : i \in 1..Len(tokens)}
\* What the booster put after the input text.
AppendedText == SubSeq(Get(boosted_text), Len(OrEmpty(text)) + 1, Len(Get(boosted_text)))

\* C14: a cuisine keyword that is exactly one token of the input is exactly
\* three tokens of the boosted text; a vibe or price keyword that is exactly
\* one token of the input is exactly two tokens of the boosted text (tokens
\* compared in lower case).
C14_KeywordMultipliers ==
    Encoded =>
        \A w \in Lexicon :
            Occurrences(w, InputTokens) = 1 =>
                Occurrences(w, BoostedTokens) = (IF w \in CUISINE_KEYWORDS THEN 3 ELSE 2)

C14_Witness ==
    /\ Encoded
    /\ text = Some("Pho deal")
    /\ Occurrences("pho", BoostedTokens) = 3
    /\ Occurrences("deal", BoostedTokens) = 2

\* C15: a text none of whose tokens is a cuisine, vibe or price keyword, the
\* empty string included, comes out of the booster unchanged.
C15_NoKeywordUnchanged ==
    (Encoded /\ ~IsNone(text) /\ TokenSet(InputTokens) \cap Lexicon = {}) =>
        Get(boosted_text) = Get(text)

C15_Witness ==
    /\ Encoded
    /\ text = Some("pho, night")
    /\ boosted_text = text

\* C16: a multi-word lexicon phrase ('date night', 'dim sum', 'fine dining')
\* that occurs in the query text is appended by the query-time booster, as a
\* single-token keyword is.
C16_PhrasesBoosted ==
    Encoded =>
        \A p \in Phrases :
            Contains(Lower(OrEmpty(text)), p) => Contains(AppendedText, p)

\* C17: the boosted text begins with the input text unchanged, every token
\* appended after it is the lower-case form of a token of the input, and so
\* the input and the boosted text have the same set of lower-cased tokens.
C17_OnlyRepeatsInputTokens ==
    Encoded =>
        /\ SubSeq(Get(boosted_text), 1, Len(OrEmpty(text))) = OrEmpty(text)
        /\ TokenSet(WordsOf(AppendedText)) \subseteq TokenSet(InputTokens)
        /\ WordsOf(AppendedText) = Split(AppendedText)
        /\ TokenSet(BoostedTokens) = TokenSet(InputTokens)

C17_Witness ==
    /\ Encoded
    /\ text = Some("Pho hip")
    /\ boosted_text = Some("Pho hip pho pho hip")


(***************************************************************************)
(* normalize_neighborhood_query (src/app/neighborhood_mapping.py) called   *)
(* on its own.  The queries drawn are every variation by itself, every     *)
(* variation inside a sentence that names no other neighborhood, every     *)
(* variation followed by a word, and a few free texts.                     *)
(***************************************************************************)
VariationKeys == {NEIGHBORHOOD_VARIATIONS[i][1] : i \in 1..Len(NEIGHBORHOOD_VARIATIONS)}
InSentence(v) == "best food in " \o v \o " now"
FreeQueries == {"", "   ", "generic query", "les", "LES", "  SoHo ",
                "I want soho food", "I want SoHo food",
                "cheap ramen in the east village", "soho or tribeca",
                "tribeca or soho", "Hells Kitchen tacos", "best food in  now",
                "spicy noodles", "seven tacos"}
ResolveQueries == VariationKeys \cup {InSentence(v) : v \in VariationKeys}
                                \cup {v \o " restaurants" : v \in VariationKeys}
                                \cup FreeQueries

\* The resolver's result for every drawn query.
ResolvedOf == [q \in ResolveQueries |-> normalize_neighborhood_query(q)]

ResolveInit == SearchIdle /\ EncodeIdle /\ ResolveIdle /\ Started /\ LaterIdle

\* One call of normalize_neighborhood_query(query).
Resolve ==
    /\ IsNone(resolve_query)
    /\ \E q \in ResolveQueries :
         /\ resolve_query' = Some(q)
         /\ resolve_result' = ResolvedOf[q]
    /\ UNCHANGED <<searchVars, encodeVars, startupVars, laterVars>>

\* The call has returned.
ResolveReturn ==
    /\ ~IsNone(resolve_query)
    /\ resolve_query' = None
    /\ resolve_result' = None
    /\ UNCHANGED <<searchVars, encodeVars, startupVars, laterVars>>

ResolveNext == Resolve \/ ResolveReturn

SpecResolve == ResolveInit /\ [][ResolveNext]_vars

(***************************************************************************)
(* Vocabulary of the resolver properties.                                  *)
(***************************************************************************)
ResolveCalled == ~IsNone(resolve_query)
\* The query in lower case without surrounding whitespace.
Trimmed == Strip(Lower(Get(resolve_query)))
\* Positions, in mapping order, of the variations the trimmed query contains.
ContainedAt == {i \in 1..Len(NEIGHBORHOOD_VARIATIONS) :
                    Contains(Trimmed, NEIGHBORHOOD_VARIATIONS[i][1])}
FirstContained == CHOOSE i \in ContainedAt : \A j \in ContainedAt : i <= j
CanonicalAt(i) == NEIGHBORHOOD_VARIATIONS[i][2]

\* C18: the resolver lower-cases and trims the query; a query that equals a
\* variation resolves to that variation's canonical name; otherwise the first
\* variation in mapping order that the query contains wins; with none it
\* resolves to nothing.  'les' gives 'Lower East Side', 'I want soho food'
\* gives 'SoHo', 'cheap ramen in the east village' gives 'East Village' and
\* 'generic query' gives nothing.
C18_ResolverBehaviour ==
    ResolveCalled =>
        /\ IF Trimmed \in VariationKeys
           THEN \A i \in 1..Len(NEIGHBORHOOD_VARIATIONS) :
                    NEIGHBORHOOD_VARIATIONS[i][1] = Trimmed
                        => resolve_result = Some(CanonicalAt(i))
           ELSE IF ContainedAt # {}
           THEN resolve_result = Some(CanonicalAt(FirstContained))
           ELSE resolve_result = None
        /\ resolve_query = Some("les") => resolve_result = Some("Lower East Side")
        /\ resolve_query = Some("I want soho food") => resolve_result = Some("SoHo")
        /\ resolve_query = Some("cheap ramen in the east village")
               => resolve_result = Some("East Village")
        /\ resolve_query = Some("generic query") => resolve_result = None

C18_Witness ==
    /\ resolve_query = Some("cheap ramen in the east village")
    /\ resolve_result = Some("East Village")

\* C19: the lexicon avoids shadowing: a query that holds a variation inside a
\* longer sentence naming no other neighborhood resolves to that variation's
\* own canonical name, because no earlier variation of a different canonical
\* name is a substring of it.
C19_NoShadowing ==
    ResolveCalled =>
        \A i \in 1..Len(NEIGHBORHOOD_VARIATIONS) :
            resolve_query = Some(InSentence(NEIGHBORHOOD_VARIATIONS[i][1]))
                => /\ resolve_result = Some(CanonicalAt(i))
                   /\ \A j \in 1..(i - 1) :
                          Contains(NEIGHBORHOOD_VARIATIONS[i][1],
                                   NEIGHBORHOOD_VARIATIONS[j][1])
                              => CanonicalAt(j) = CanonicalAt(i)


(***************************************************************************)
(* Import of src/app/app.py: the index file pair is checked and loaded     *)
(* before the service takes a request.  A file is absent, or present with  *)
(* a size in bytes and either readable in its format or not.  128 bytes is *)
(* an .npy file of an empty array; an empty file is never readable.        *)
(***************************************************************************)
MIN_INDEX_BYTES == 1024

FileSizes == {0, 128, MIN_INDEX_BYTES - 1, MIN_INDEX_BYTES, 4096}
Absent == [exists |-> FALSE, size |-> 0, valid |-> FALSE]
Files == {Absent} \cup
         {f \in [exists : {TRUE}, size : FileSizes, valid : BOOLEAN] :
              f.size = 0 => ~f.valid}

StartupInit == /\ SearchIdle
               /\ EncodeIdle
               /\ ResolveIdle
               /\ faiss_file \in Files
               /\ meta_file \in Files
               /\ service = "importing"
               /\ LaterIdle

\* FAISS_PATH.exists() and FAISS_PATH.stat().st_size >= 1024, else RuntimeError
FaissFileAccepted(f) == f.exists /\ f.size >= MIN_INDEX_BYTES

\* faiss.read_index(path) and np.load(path) raise on a file that is missing
\* or not readable in its format.
Loads(f) == f.exists /\ f.valid

\* The module-level statements up to "Models loaded".
Startup ==
    /\ service = "importing"
    /\ service' = IF /\ FaissFileAccepted(faiss_file)
                     /\ Loads(faiss_file)
                     /\ Loads(meta_file)
                  THEN "started"
                  ELSE "refused"
    /\ UNCHANGED <<faiss_file, meta_file, searchVars, encodeVars, resolveVars, laterVars>>

StartupNext == Startup

SpecStartup == StartupInit /\ [][StartupNext]_vars

\* C20: at startup both files of the index pair must be present and not
\* trivially small; with either one missing or trivially small the service
\* does not start.
C20_BothFilesPresentAndSized ==
    service = "started" =>
        \A f \in {faiss_file, meta_file} : f.exists /\ f.size >= MIN_INDEX_BYTES


(***************************************************************************)
(* The serving process over several requests, with the errors the body of  *)
(* search() can raise (src/app/app.py, lines 356-425).  The import of the  *)
(* module loads the index without looking at its dimensionality, so a      *)
(* process can be serving an index whose rows are not D_TEXT + D_IMAGE     *)
(* long (an index built from text embeddings alone has D_TEXT).            *)
(***************************************************************************)
MaxRequests == 2    \* requests one run of the service answers

\* What can go wrong in a request, besides the index:
\*   k_not_int       "k" / "top_k" is not an integer literal: int() raises
\*   query_not_str   the JSON "query" is a number: .lower() raises
\*   encoder_raises  text_model.encode raises
\*   db_unavailable  sqlite3 raises in get_restaurant_details
\*   price_not_int   "price_level" is a non-numeric string: int() raises
Faults == {"none", "k_not_int", "query_not_str", "encoder_raises",
           "db_unavailable", "price_not_int"}

\* lines 361, 368: top_k = int(...)
ParseRaises(fault) == fault = "k_not_int"
\* line 371 on the raw value: a number other than 0 is truthy
RejectedRaw(req, fault) == fault # "query_not_str" /\ Rejected(req)
\* line 379: query.lower() inside normalize_neighborhood_query
ResolveRaises(fault) == fault = "query_not_str"
\* line 385: encode_query
EncodeRaises(fault) == fault = "encoder_raises"
\* line 389: faiss_index.search asserts that the query has the index's d
SearchRaises(d) == d # D_TEXT + D_IMAGE
\* line 395: the first get_restaurant_details call
HydrateRaises(fault) == fault = "db_unavailable"
\* line 411: int(price_filter), reached by the first candidate that hydrates
\* and passes the neighborhood filter
ScanToPriceCheck(cands, nf) == FilterLoop(cands, 1, <<>>, <<>>, nf, NoPrice, 1)
FilterRaises(fault, cands, nf) ==
    fault = "price_not_int" /\ ScanToPriceCheck(cands, nf).results # <<>>

\* Variant of OnException: the exception leaves the handler, no response.
OnExceptionPropagates(e) == None

\* lines 423-425: except Exception as e: return jsonify({"error": str(e)}), 500
OnException(e) == Some([status |-> 500, error |-> e])

\* The try body of search() for one request: the exception raised (None when
\* the body returns), the response returned, the locals and the calls made.
TryBody(req, fault, ranking, d) ==
    LET nothing == [raised |-> None, response |-> None, nf |-> None,
                    cands |-> <<>>, searched |-> <<>>, hydrated |-> <<>>,
                    calls |-> <<>>]
    IN
    IF ParseRaises(fault) THEN [nothing EXCEPT !.raised = Some("ValueError")]
    ELSE IF RejectedRaw(req, fault)
    THEN [nothing EXCEPT !.response =
              Some([status |-> 400, error |-> "Please provide text or image query"])]
    ELSE IF ResolveRaises(fault)
    THEN [nothing EXCEPT !.raised = Some("AttributeError"),
                         !.calls = <<"normalize_neighborhood_query">>]
    ELSE
    LET nf == NeighborhoodOf[QueryText(req)]
        top_k == TopK(req)
        search_k == SearchK(nf, PriceFilter(req), top_k)
        named == [nothing EXCEPT !.nf = nf,
                                 !.calls = <<"normalize_neighborhood_query",
                                             "encode_query">>]
    IN
    IF EncodeRaises(fault) THEN [named EXCEPT !.raised = Some("RuntimeError")]
    ELSE
    LET asked == [named EXCEPT !.searched = <<search_k>>,
                               !.calls = Append(named.calls, "faiss_index.search")]
    IN
    IF SearchRaises(d) THEN [asked EXCEPT !.raised = Some("AssertionError")]
    ELSE
    LET cands == faiss_index_search(ranking, search_k)
        out == IF HydrateRaises(fault)
               THEN [results |-> <<>>, hydrated |-> <<MetaIdAt(cands[1].idx)>>]
               ELSE IF FilterRaises(fault, cands, nf)
               THEN ScanToPriceCheck(cands, nf)
               ELSE FilterLoop(cands, 1, <<>>, <<>>, nf, PriceFilter(req), top_k)
        found == [asked EXCEPT !.cands = cands,
                               !.hydrated = out.hydrated,
                               !.calls = asked.calls \o
                                   [h \in 1..Len(out.hydrated) |->
                                        "get_restaurant_details"]]
    IN
    IF HydrateRaises(fault) THEN [found EXCEPT !.raised = Some("OperationalError")]
    ELSE IF FilterRaises(fault, cands, nf)
    THEN [found EXCEPT !.raised = Some("ValueError")]
    ELSE [found EXCEPT !.response = Respond(out.results)]

\* A store of one row, present or missing in the table.
ServeInit ==
    /\ meta_ids = <<IdOfRow(0)>>
    /\ restaurants \in [{IdOfRow(0)} ->
           {None, Some([neighborhood |-> Some("SoHo"), price_level |-> Some(2)])}]
    /\ phase = "idle"
    /\ request = None
    /\ response = None
    /\ neighborhood_filter = None
    /\ candidates = <<>>
    /\ calls = <<>>
    /\ searched = <<>>
    /\ hydrated = <<>>
    /\ EncodeIdle
    /\ ResolveIdle
    /\ Started
    /\ index_d \in {D_TEXT + D_IMAGE, D_TEXT}
    /\ raised = None
    /\ served = 0
    /\ ServeRestIdle

\* POST /api/search while the service runs: the try body, and the except
\* clause when the body raises.
ServeSearch ==
    /\ service = "started"
    /\ phase = "idle"
    /\ served < MaxRequests
    /\ \E req \in Requests, fault \in Faults, ranking \in Rankings :
         /\ fault = "query_not_str" => req.is_json
         /\ LET b == TryBody(req, fault, ranking, index_d)
            IN  /\ request' = Some(req)
                /\ raised' = b.raised
                /\ response' = IF IsNone(b.raised) THEN b.response
                               ELSE OnException(Get(b.raised))
                /\ neighborhood_filter' = b.nf
                /\ candidates' = b.cands
                /\ searched' = b.searched
                /\ hydrated' = b.hydrated
                /\ calls' = b.calls
    /\ phase' = "responded"
    /\ UNCHANGED <<meta_ids, restaurants, index_d, served,
                   encodeVars, resolveVars, startupVars, serveFrame>>

\* The response has been sent; the process waits for the next request.
ServeReturn ==
    /\ phase = "responded"
    /\ phase' = "idle"
    /\ request' = None
    /\ response' = None
    /\ neighborhood_filter' = None
    /\ candidates' = <<>>
    /\ calls' = <<>>
    /\ searched' = <<>>
    /\ hydrated' = <<>>
    /\ raised' = None
    /\ served' = served + 1
    /\ UNCHANGED <<meta_ids, restaurants, index_d,
                   encodeVars, resolveVars, startupVars, serveFrame>>

ServeNext == ServeSearch \/ ServeReturn

SpecServe == ServeInit /\ [][ServeNext]_vars

(***************************************************************************)
(* Vocabulary of the serving properties.                                   *)
(***************************************************************************)
DimensionMismatch == index_d # D_TEXT + D_IMAGE
\* The request in progress got as far as the similarity search and the
\* mismatch was detected there.
MismatchDetected == Responded /\ raised = Some("AssertionError")

\* C21: a mismatch between the query vector's dimensionality and the index's
\* is fatal: once it has been detected the service no longer serves, instead
\* of answering that request with an error and staying up for the next one.
C21_MismatchStopsService ==
    MismatchDetected => service # "started"

\* C22: an error raised anywhere in the handling of a search request is
\* caught at the handler's boundary and answered 500; the handler always
\* returns a response, the service keeps running for the next request, and
\* the index, the ID array and the store stay as they were.
C22_ErrorsAnswered500 ==
    /\ [](Responded =>
            /\ ~IsNone(response)
            /\ (~IsNone(raised) <=> Resp.status = 500)
            /\ Resp.status \in {200, 400, 500}
            /\ service = "started")
    /\ []((phase = "idle" /\ served < MaxRequests) => ENABLED ServeSearch)
    /\ [][/\ meta_ids' = meta_ids
          /\ restaurants' = restaurants
          /\ index_d' = index_d
          /\ service' = service]_vars

\* The second request of a run: int(price_filter) raised after a record had
\* been hydrated, and the request was answered 500.
C22_Witness ==
    /\ served = 1
    /\ Responded
    /\ raised = Some("ValueError")
    /\ hydrated # <<>>
    /\ Resp.status = 500


(***************************************************************************)
(* The index builder, main() of src/generate_embeddings_final.py: for each *)
(* restaurant the text (its reviews, or its name) is boosted and embedded, *)
(* its photos are embedded, and the combined vector and the restaurant id  *)
(* are appended to two parallel lists, which are then saved.               *)
(***************************************************************************)
\* The builder's keyword lexicons (its own copies) and its phrase list.
BUILD_CUISINE_KEYWORDS ==
    {"chinese", "japanese", "korean", "thai", "vietnamese", "indian",
     "filipino", "indonesian", "malaysian", "burmese", "italian",
     "french", "spanish", "greek", "german", "portuguese", "polish",
     "russian", "mexican", "peruvian", "brazilian", "colombian",
     "argentinian", "cuban", "middle eastern", "lebanese", "turkish",
     "moroccan", "ethiopian", "israeli", "mediterranean", "pizza",
     "sushi", "burger", "bbq", "steakhouse", "seafood", "ramen", "pho",
     "tapas", "dim sum", "curry", "pasta", "noodles", "dumplings",
     "bagels", "deli", "halal", "soul food", "cajun", "creole",
     "vegetarian", "vegan"}

BUILD_VIBE_KEYWORDS ==
    {"romantic", "cozy", "intimate", "date", "candlelit", "ambiance",
     "atmosphere", "date night", "quiet", "elegant", "fancy", "casual",
     "fine dining", "lively", "energetic", "relaxed", "chill", "vibey",
     "loud", "noisy", "buzzing", "packed", "trendy", "hip", "modern",
     "rustic", "charming", "spacious", "bright", "dark", "dimly",
     "instagram", "instagrammable", "outdoor", "patio", "rooftop",
     "garden", "sidewalk", "alfresco", "bar seating", "counter seating",
     "fusion", "authentic", "traditional", "homestyle", "family-style",
     "hidden gem", "local favorite", "hole in the wall", "group", "solo",
     "family", "kids", "friends", "brunch", "late night", "quick", "fast",
     "happy hour"}

BUILD_PRICE_KEYWORDS ==
    {"cheap", "affordable", "budget", "inexpensive", "expensive",
     "pricey", "upscale", "high-end", "value", "deal", "splurge",
     "reasonable"}

NEIGHBORHOOD_KEYWORDS ==
    {"soho", "tribeca", "chinatown", "financial district", "fidi",
     "battery park", "lower east side", "les", "east village",
     "west village", "greenwich village", "noho", "nolita", "bowery",
     "chelsea", "flatiron", "gramercy", "union square", "midtown",
     "times square", "hells kitchen", "murray hill", "kips bay",
     "upper east side", "ues", "upper west side", "uws",
     "morningside heights", "harlem", "east harlem", "washington heights",
     "inwood", "manhattan", "downtown", "uptown"}

VENUE_KEYWORDS ==
    {"restaurant", "bar", "cafe", "coffee shop", "bakery", "bistro",
     "brasserie", "gastropub", "pub", "tavern", "lounge", "wine bar",
     "cocktail bar", "speakeasy", "dive bar", "sports bar", "brewery",
     "food hall", "food court", "diner", "eatery", "spot", "joint",
     "taqueria", "pizzeria", "trattoria", "osteria", "ramen shop",
     "noodle bar", "sushi bar", "izakaya", "tapas bar", "steakhouse",
     "grill", "chophouse", "seafood restaurant", "oyster bar"}

BUILD_PHRASES ==
    <<"date night", "fine dining", "bar seating", "counter seating",
     "middle eastern", "dim sum", "soul food", "coffee shop",
     "financial district", "lower east side", "east village",
     "west village", "greenwich village", "union square", "times square",
     "hells kitchen", "upper east side", "upper west side",
     "morningside heights", "east harlem", "washington heights",
     "battery park", "hidden gem", "local favorite", "hole in the wall",
     "happy hour", "late night", "family-style", "wine bar",
     "cocktail bar", "dive bar", "sports bar", "food hall", "food court",
     "ramen shop", "noodle bar", "sushi bar", "tapas bar",
     "seafood restaurant", "oyster bar">>

\* The list a phrase found in the text is appended to (the if / elif chain);
\* "none" for a phrase of no lexicon.
PhraseList(p) ==
    IF p \in BUILD_CUISINE_KEYWORDS THEN "cuisine"
    ELSE IF p \in BUILD_VIBE_KEYWORDS THEN "vibe"
    ELSE IF p \in NEIGHBORHOOD_KEYWORDS THEN "neighborhood"
    ELSE IF p \in VENUE_KEYWORDS THEN "venue"
    ELSE "none"

\* The phrases of the phrase list found in text_lower that go to one list,
\* in phrase-list order.
PhrasesFound(text_lower, list) ==
    SelectSeq(BUILD_PHRASES, LAMBDA p : Contains(text_lower, p) /\ PhraseList(p) = list)

\* The builder's booster: text_content after the five appends.
BuildBoostedText(text_content) ==
    LET words_lower == Split(Lower(text_content))
        text_lower == Lower(text_content)
        cuisine_words == KeywordsIn(words_lower, BUILD_CUISINE_KEYWORDS)
                             \o PhrasesFound(text_lower, "cuisine")
        vibe_words == KeywordsIn(words_lower, BUILD_VIBE_KEYWORDS)
                          \o PhrasesFound(text_lower, "vibe")
        price_words == KeywordsIn(words_lower, BUILD_PRICE_KEYWORDS)
        neighborhood_words == KeywordsIn(words_lower, NEIGHBORHOOD_KEYWORDS)
                                  \o PhrasesFound(text_lower, "neighborhood")
        venue_words == KeywordsIn(words_lower, VENUE_KEYWORDS)
                           \o PhrasesFound(text_lower, "venue")
    IN  AppendWords(AppendWords(AppendWords(AppendWords(AppendWords(text_content,
            cuisine_words \o cuisine_words), vibe_words), price_words),
            neighborhood_words), venue_words)


\* Variant of AppendId: a restaurant without reviews gets no id.
AppendIdIfReviewed(ids, row) ==
    IF row.reviews = <<>> THEN ids ELSE Append(ids, row.id)

\* meta_ids.append(restaurant_id)
AppendId(ids, row) == Append(ids, row.id)

\* " ".join([r[0] for r in review_rows if r[0]]) when the restaurant has
\* review rows, otherwise `name or ""`.  A review text can be NULL or empty.
TextContent(row) ==
    IF row.reviews # <<>>
    THEN Join([j \in 1..Len(SelectSeq(row.reviews, LAMBDA r : ~IsNone(r) /\ Get(r) # "")) |->
                  Get(SelectSeq(row.reviews, LAMBDA r : ~IsNone(r) /\ Get(r) # "")[j])], " ")
    ELSE OrEmpty(row.name)

\* The photos that exist on disk and that CLIP embeds; a missing file is
\* skipped and a failing one is dropped by `except Exception: continue`.
EmbeddedPhotos(row) == SelectSeq(row.photos, LAMBDA f : f \in {"photoA", "photoB"})

\* The normalised mean of the photo embeddings, zeros without any.  The rows
\* drawn have at most one readable photo, whose normalised mean is its own
\* embedding.
BuildImageVec(row) ==
    IF EmbeddedPhotos(row) = <<>> THEN Zeros(D_IMAGE)
    ELSE clip_encode(<<EmbeddedPhotos(row)[1]>>)

\* combined = np.concatenate([text_vec, img_vec])
RowVector(row) ==
    text_model_encode(BuildBoostedText(TextContent(row))) \o BuildImageVec(row)

\* What the database holds for a restaurant, besides its id.
BuildContents ==
    {[name |-> Some("Joe's Pizza"), reviews |-> <<>>, photos |-> <<>>],
     [name |-> None, reviews |-> <<>>, photos |-> <<"photoA">>],
     [name |-> Some("Lucky"), reviews |-> <<Some("cozy date night"), None, Some("")>>,
      photos |-> <<"corrupt">>],
     [name |-> Some("Bar B"), reviews |-> <<Some("great sushi bar"), Some("hip")>>,
      photos |-> <<"missing", "photoB">>],
     [name |-> Some("Oda"), reviews |-> <<None>>, photos |-> <<"corrupt", "photoA">>]}

BuildInit ==
    /\ SearchIdle /\ EncodeIdle /\ ResolveIdle /\ Started /\ BuildRestIdle
    /\ \E n \in 1..MaxRows :
         \E content \in [1..n -> BuildContents] :
            build_rows = [j \in 1..n |->
                [id |-> IdOfRow(j - 1), name |-> content[j].name,
                 reviews |-> content[j].reviews, photos |-> content[j].photos]]
    /\ build_i = 0
    /\ build_text = None
    /\ embeddings = <<>>
    /\ build_meta_ids = <<>>
    /\ build_pc = "loop"
    /\ saved_index = <<>>
    /\ saved_meta = <<>>
    /\ looked_up = None

\* One iteration of `for restaurant_id, name, place_id in restaurants`.
BuildRow ==
    /\ build_pc = "loop"
    /\ build_i < Len(build_rows)
    /\ LET row == build_rows[build_i + 1]
       IN  /\ build_text' = Some(BuildBoostedText(TextContent(row)))
           /\ embeddings' = Append(embeddings, RowVector(row))
           /\ build_meta_ids' = AppendId(build_meta_ids, row)
    /\ build_i' = build_i + 1
    /\ UNCHANGED <<build_rows, build_pc, saved_index, saved_meta, looked_up,
                   searchVars, encodeVars, resolveVars, startupVars, buildFrame>>

\* After the loop: np.vstack, index.add, faiss.write_index, np.save.
BuildSave ==
    /\ build_pc = "loop"
    /\ build_i = Len(build_rows)
    /\ saved_index' = embeddings
    /\ saved_meta' = build_meta_ids
    /\ build_pc' = "saved"
    /\ UNCHANGED <<build_rows, build_i, build_text, embeddings, build_meta_ids,
                   looked_up,
                   searchVars, encodeVars, resolveVars, startupVars, buildFrame>>

\* The query path on the saved pair (src/app/app.py, lines 393-394): a row
\* the index returns is turned into a restaurant id by meta_ids[idx].
BuildLookup ==
    /\ build_pc = "saved"
    /\ IsNone(looked_up)
    /\ \E idx \in 0..(Len(saved_index) - 1) :
         looked_up' = Some([idx |-> idx,
                            restaurant_id |-> IF idx + 1 <= Len(saved_meta)
                                              THEN Some(saved_meta[idx + 1])
                                              ELSE None])
    /\ UNCHANGED <<build_rows, build_i, build_text, embeddings, build_meta_ids,
                   build_pc, saved_index, saved_meta,
                   searchVars, encodeVars, resolveVars, startupVars, buildFrame>>

BuildNext == BuildRow \/ BuildSave \/ BuildLookup

SpecBuild == BuildInit /\ [][BuildNext]_vars

\* The fetched restaurant with a given id.
BuildRowOf(id) == build_rows[CHOOSE j \in 1..Len(build_rows) : build_rows[j].id = id]

\* C23: row i of the index corresponds to meta_ids[i]: after any number of
\* restaurants processed the two lists are equally long and the vector at
\* position i was computed from the restaurant whose id is at position i;
\* the same holds of the saved pair, and a row looked up in the saved pair
\* is mapped to the restaurant it was computed from.
C23_RowsParallelToIds ==
    /\ Len(embeddings) = Len(build_meta_ids)
    /\ Len(embeddings) = build_i
    /\ \A j \in 1..Len(build_meta_ids) :
          /\ build_meta_ids[j] = build_rows[j].id
          /\ embeddings[j] = RowVector(BuildRowOf(build_meta_ids[j]))
    /\ build_pc = "saved" =>
          /\ saved_index = embeddings
          /\ saved_meta = build_meta_ids
          /\ Len(saved_meta) = Len(build_rows)
    /\ ~IsNone(looked_up) =>
          /\ ~IsNone(Get(looked_up).restaurant_id)
          /\ saved_index[Get(looked_up).idx + 1]
                 = RowVector(BuildRowOf(Get(Get(looked_up).restaurant_id)))

\* Two restaurants, the first without reviews; the second row was looked up.
C23_Witness ==
    /\ Len(build_rows) = 2
    /\ build_rows[1].reviews = <<>>
    /\ build_rows[2].reviews # <<>>
    /\ ~IsNone(looked_up)
    /\ Get(looked_up).idx = 1
    /\ Get(looked_up).restaurant_id = Some(build_rows[2].id)
    /\ saved_index[1] # saved_index[2]


(***************************************************************************)
(* Concurrent requests.  The server runs search() on a thread per request  *)
(* (app.run, line 524).  Everything search() and encode_query() assign is  *)
(* a local of the call; the module-level faiss_index, meta_ids and models  *)
(* (lines 61-83) and the database are only read.  Each handler thread is   *)
(* at a position in search() with its own locals; a step of one thread is  *)
(* one statement group of search().  The query's scores depend on the      *)
(* request alone: the ranking the index holds for it is drawn with it.     *)
(***************************************************************************)
Handlers == {"A", "B"}

ConcRequests ==
    {[is_json |-> TRUE, text |-> "I want SoHo food", image |-> FALSE,
      k |-> Some(1), price_level |-> NoPrice],
     [is_json |-> TRUE, text |-> "generic query", image |-> FALSE,
      k |-> Some(2), price_level |-> PriceInt(2)],
     [is_json |-> FALSE, text |-> "", image |-> TRUE,
      k |-> Some(2), price_level |-> NoPrice],
     [is_json |-> FALSE, text |-> "", image |-> FALSE,
      k |-> Some(1), price_level |-> NoPrice]}

NoLocals ==
    [pc |-> "idle", req |-> None, ranking |-> <<>>, nf |-> None, cands |-> <<>>,
     j |-> 0, results |-> <<>>, resp |-> None]

\* Variant of OwnResults: `results` is one module-level list, so a thread
\* scanning sees what another scanning thread has appended.
SharedResults(h) ==
    IF \E o \in Handlers \ {h} : handlers[o].pc = "scan"
    THEN handlers[CHOOSE o \in Handlers \ {h} : handlers[o].pc = "scan"].results
    ELSE handlers[h].results

\* line 392: results = [] is a local of the call.
OwnResults(h) == handlers[h].results

ConcInit ==
    /\ meta_ids = <<IdOfRow(0), IdOfRow(1)>>
    /\ restaurants \in [{IdOfRow(0), IdOfRow(1)} ->
          {None,
           Some([neighborhood |-> Some("SoHo"), price_level |-> Some(2)]),
           Some([neighborhood |-> Some("Tribeca"), price_level |-> Some(2)])}]
    /\ phase = "idle"
    /\ request = None
    /\ response = None
    /\ neighborhood_filter = None
    /\ candidates = <<>>
    /\ calls = <<>>
    /\ searched = <<>>
    /\ hydrated = <<>>
    /\ EncodeIdle /\ ResolveIdle /\ Started /\ ConcRestIdle
    /\ handlers = [h \in Handlers |-> NoLocals]

ConcFrame ==
    UNCHANGED <<searchVars, encodeVars, resolveVars, startupVars, concFrame>>

\* lines 356-372: the request is parsed; an empty one is answered 400.
ConcReceive(h) ==
    /\ handlers[h].pc = "idle"
    /\ \E req \in ConcRequests, ranking \in Rankings :
         handlers' = [handlers EXCEPT ![h] =
            IF Rejected(req)
            THEN [NoLocals EXCEPT !.pc = "done", !.req = Some(req),
                     !.resp = Some([status |-> 400,
                                    error |-> "Please provide text or image query"])]
            ELSE [NoLocals EXCEPT !.pc = "parsed", !.req = Some(req),
                     !.ranking = ranking]]
    /\ ConcFrame

\* line 379: neighborhood_filter = normalize_neighborhood_query(query_text)
ConcResolve(h) ==
    /\ handlers[h].pc = "parsed"
    /\ handlers' = [handlers EXCEPT ![h].pc = "resolved",
                       ![h].nf = NeighborhoodOf[QueryText(Get(handlers[h].req))]]
    /\ ConcFrame

\* line 385: query_vec = encode_query(...): inference on the shared models.
ConcEncode(h) ==
    /\ handlers[h].pc = "resolved"
    /\ handlers' = [handlers EXCEPT ![h].pc = "encoded"]
    /\ ConcFrame

\* lines 388-392: the index is searched; the result list starts empty.
ConcIndexSearch(h) ==
    /\ handlers[h].pc = "encoded"
    /\ LET loc == handlers[h]
           search_k == SearchK(loc.nf, PriceFilter(Get(loc.req)), TopK(Get(loc.req)))
       IN  handlers' = [handlers EXCEPT ![h].pc = "scan",
                           ![h].cands = faiss_index_search(loc.ranking, search_k),
                           ![h].j = 1,
                           ![h].results = <<>>]
    /\ ConcFrame

\* lines 393-421: one iteration of the loop, or the response after it.
ConcScan(h) ==
    /\ handlers[h].pc = "scan"
    /\ LET loc == handlers[h]
           req == Get(loc.req)
       IN  IF loc.j > Len(loc.cands)
           THEN handlers' = [handlers EXCEPT ![h].pc = "done",
                                ![h].resp = Respond(OwnResults(h))]
           ELSE LET details == get_restaurant_details(MetaIdAt(loc.cands[loc.j].idx))
                    kept == /\ ~IsNone(details)
                            /\ PassesNeighborhood(Get(details), loc.nf)
                            /\ PassesPrice(Get(details), PriceFilter(req))
                    results2 ==
                        IF kept
                        THEN Append(OwnResults(h),
                                    WithScore(Get(details), loc.cands[loc.j].distance))
                        ELSE OwnResults(h)
                IN  IF kept /\ Enough(results2, TopK(req))
                    THEN handlers' = [handlers EXCEPT ![h].pc = "done",
                                         ![h].results = results2,
                                         ![h].resp = Respond(results2)]
                    ELSE handlers' = [handlers EXCEPT ![h].j = loc.j + 1,
                                         ![h].results = results2]
    /\ ConcFrame

\* The response is sent and the call's locals are gone.
ConcReturn(h) ==
    /\ handlers[h].pc = "done"
    /\ handlers' = [handlers EXCEPT ![h] = NoLocals]
    /\ ConcFrame

ConcNext ==
    \E h \in Handlers :
        \/ ConcReceive(h)
        \/ ConcResolve(h)
        \/ ConcEncode(h)
        \/ ConcIndexSearch(h)
        \/ ConcScan(h)
        \/ ConcReturn(h)

SpecConcurrent == ConcInit /\ [][ConcNext]_vars

\* The response search() gives the request when it runs alone (as Search).
AloneResponse(req, ranking) ==
    IF Rejected(req)
    THEN Some([status |-> 400, error |-> "Please provide text or image query"])
    ELSE LET nf == NeighborhoodOf[QueryText(req)]
             top_k == TopK(req)
             cands == faiss_index_search(ranking, SearchK(nf, PriceFilter(req), top_k))
         IN  Respond(FilterLoop(cands, 1, <<>>, <<>>, nf, PriceFilter(req), top_k).results)

\* C24: under every interleaving of two requests' steps, each response is
\* the one the request gets when it is handled alone, and no step of the
\* query path writes the id array or the stored rows.
C24_InterleavingsEqualAlone ==
    /\ [](\A h \in Handlers :
            handlers[h].pc = "done" =>
                handlers[h].resp = AloneResponse(Get(handlers[h].req), handlers[h].ranking))
    /\ [][meta_ids' = meta_ids /\ restaurants' = restaurants]_vars

\* One request is answered with a record while a different request is in
\* the middle of its loop with a record of its own collected.
C24_Witness ==
    /\ handlers["A"].pc = "done"
    /\ Get(handlers["A"].resp).status = 200
    /\ Get(handlers["A"].resp).results # <<>>
    /\ handlers["B"].pc = "scan"
    /\ handlers["B"].results # <<>>
    /\ handlers["B"].req # handlers["A"].req
    /\ handlers["B"].results[1] # Get(handlers["A"].resp).results[1]


\* C25: every record of a response comes from a distinct index row that the
\* search actually returned (not from a padding label), so no restaurant is
\* in a response twice, also when more candidates are requested than the
\* index holds.
C25_NoDuplicateRecords ==
    (Responded /\ Resp.status = 200) =>
        /\ \A a, b \in 1..Len(Resp.results) :
              a # b => Resp.results[a].id # Resp.results[b].id
        /\ \E row \in [1..Len(Resp.results) -> 1..Len(candidates)] :
              /\ \A a, b \in 1..Len(Resp.results) : a # b => row[a] # row[b]
              /\ \A a \in 1..Len(Resp.results) :
                    /\ candidates[row[a]].idx >= 0
                    /\ MetaIdAt(candidates[row[a]].idx) = Resp.results[a].id


\* The trimmed query holds the text as whole words: bounded on each side
\* by a space or by an end of the query.
HasWords(words) == Contains(" " \o Trimmed \o " ", " " \o words \o " ")

\* C26: the resolver returns a neighborhood only if a variation occurs in
\* the query as a complete word or word sequence; a variation that occurs
\* only inside a longer word ('les', 'ev', 'ues') does not trigger the
\* filter.
C26_OnlyWholeWordsResolve ==
    (ResolveCalled /\ ~IsNone(resolve_result)) =>
        \E i \in 1..Len(NEIGHBORHOOD_VARIATIONS) :
            HasWords(NEIGHBORHOOD_VARIATIONS[i][1])


(***************************************************************************)
(* get_restaurant_details(restaurant_id) with its database connection      *)
(* (src/app/app.py, lines 199-283).  The call opens a connection of its    *)
(* own (get_db, line 201) and closes it on line 282, which the not-found   *)
(* return on line 216 does not reach.  A connection left open is           *)
(* unreferenced once the call has returned; the interpreter closes it when *)
(* it collects the object, which may be at the return or any time later.   *)
(***************************************************************************)
\* An id no stored row has.
UnknownId == IdOfRow(MaxRows)

DetailsInit ==
    /\ \E n \in 1..MaxRows : meta_ids = [i \in 1..n |-> IdOfRow(i - 1)]
    /\ restaurants \in [{meta_ids[i] : i \in 1..Len(meta_ids)} ->
                           {None} \cup {Some(r) : r \in RestaurantRows}]
    /\ phase = "idle"
    /\ request = None
    /\ response = None
    /\ neighborhood_filter = None
    /\ candidates = <<>>
    /\ calls = <<>>
    /\ searched = <<>>
    /\ hydrated = <<>>
    /\ EncodeIdle /\ ResolveIdle /\ Started /\ DetailRestIdle
    /\ detail_id = None
    /\ detail_result = None
    /\ detail_pc = "idle"
    /\ open_connections = 0
    /\ detail_calls = 0

\* The connections still open when the call returns: line 282 closes the
\* call's connection on the found path only.
OpenAfterCall(details, collected_at_return) ==
    IF IsNone(details) /\ ~collected_at_return
    THEN open_connections + 1
    ELSE open_connections

\* One whole call, from get_db() to the return.
DetailsCall ==
    /\ detail_pc = "idle"
    /\ detail_calls < MaxRequests
    /\ \E id \in {meta_ids[i] : i \in 1..Len(meta_ids)} \cup {UnknownId},
          collected_at_return \in BOOLEAN :
         /\ detail_id' = Some(id)
         /\ detail_result' = get_restaurant_details(id)
         /\ open_connections' = OpenAfterCall(get_restaurant_details(id),
                                              collected_at_return)
    /\ detail_pc' = "returned"
    /\ detail_calls' = detail_calls + 1
    /\ UNCHANGED <<searchVars, encodeVars, resolveVars, startupVars, detailFrame>>

\* The caller has taken the result.
DetailsReturn ==
    /\ detail_pc = "returned"
    /\ detail_pc' = "idle"
    /\ detail_id' = None
    /\ detail_result' = None
    /\ UNCHANGED <<open_connections, detail_calls,
                   searchVars, encodeVars, resolveVars, startupVars, detailFrame>>

\* The interpreter collects an unreferenced connection, which closes it.
DetailsCollect ==
    /\ open_connections > 0
    /\ open_connections' = open_connections - 1
    /\ UNCHANGED <<detail_id, detail_result, detail_pc, detail_calls,
                   searchVars, encodeVars, resolveVars, startupVars, detailFrame>>

DetailsNext == DetailsCall \/ DetailsReturn \/ DetailsCollect

SpecDetails == DetailsInit /\ [][DetailsNext]_vars

\* C27: every connection get_restaurant_details opens is closed by the time
\* the call returns, whether or not the restaurant was found: outside a
\* call no connection is open.
C27_ConnectionsClosedOnReturn ==
    detail_pc \in {"returned", "idle"} => open_connections = 0


(***************************************************************************)
(* Vocabulary of the builder's booster property: the restaurant the loop   *)
(* has just processed, its text before and after the boosting.             *)
(***************************************************************************)
BuildLexicon == BUILD_CUISINE_KEYWORDS \cup BUILD_VIBE_KEYWORDS \cup BUILD_PRICE_KEYWORDS
                    \cup NEIGHBORHOOD_KEYWORDS \cup VENUE_KEYWORDS
RowBoosted == build_pc = "loop" /\ build_i > 0
BuildInputTokens == Split(Lower(TextContent(build_rows[build_i])))
BuildBoostedTokens == Split(Lower(Get(build_text)))
\* How often a keyword of one or more words occurs as consecutive tokens.
WordSeqOccurrences(kw, tokens) ==
    Cardinality({p \in 1..Len(tokens) :
                    /\ p + Len(Split(kw)) - 1 <= Len(tokens)
                    /\ SubSeq(tokens, p, p + Len(Split(kw)) - 1) = Split(kw)})

\* C28: in the text the builder embeds, a keyword that occurs exactly once
\* in the restaurant's text occurs exactly three times if it is a cuisine
\* keyword and exactly twice if it is a vibe, price, neighborhood or venue
\* keyword; this holds of the keywords of the phrase list and of the tokens
\* those phrases contain as well.
C28_BuilderMultipliers ==
    RowBoosted =>
        \A kw \in BuildLexicon :
            WordSeqOccurrences(kw, BuildInputTokens) = 1 =>
                WordSeqOccurrences(kw, BuildBoostedTokens)
                    = (IF kw \in BUILD_CUISINE_KEYWORDS THEN 3 ELSE 2)


(***************************************************************************)
(* The SerpApi scraper, main() of src/scripts/serpapi_full_scraper.py.     *)
(* The restaurant list is deduplicated by place_id and each entry's query  *)
(* is its name followed by " NYC" (lines 217-243), so two places of one    *)
(* name have the same query.  The checkpoint is a dict of three lists;     *)
(* a result is recorded here by the query it was scraped for.  A run       *)
(* loads the checkpoint, walks the restaurants whose query is not in       *)
(* 'processed', and saves the checkpoint after each one.  A save that      *)
(* fails leaves the file as it was or cut short (open(.., "w") truncates). *)
(***************************************************************************)
MaxPlaces == 2
MAX_CONSECUTIVE_ERRORS == 5

PlaceNames == {"Lucali", "Joe's Pizza"}
QueryOf(name) == name \o " NYC"

EmptyCheckpoint == [processed |-> <<>>, results |-> <<>>, skipped |-> <<>>]
NoFile == [state |-> "absent", processed |-> <<>>, results |-> <<>>, skipped |-> <<>>]
CutShort == [state |-> "corrupt", processed |-> <<>>, results |-> <<>>, skipped |-> <<>>]
\* json.dump(checkpoint, f) completed.
Written(ck) == [state |-> "valid", processed |-> ck.processed,
                results |-> ck.results, skipped |-> ck.skipped]

\* load_checkpoint(): the file's content, or empty lists without a file.
load_checkpoint(disk) ==
    IF disk.state = "valid"
    THEN [processed |-> disk.processed, results |-> disk.results,
          skipped |-> disk.skipped]
    ELSE EmptyCheckpoint

\* lines 608-612: processed.append(query), then results or skipped.
RecordOutcome(ck, q, has_result) ==
    [processed |-> Append(ck.processed, q),
     results |-> IF has_result THEN Append(ck.results, q) ELSE ck.results,
     skipped |-> IF has_result THEN ck.skipped ELSE Append(ck.skipped, q)]

\* lines 633-635: the except branch records the query as skipped.
RecordError(ck, q) ==
    [processed |-> Append(ck.processed, q),
     results |-> ck.results,
     skipped |-> Append(ck.skipped, q)]

SerpInit ==
    /\ SearchIdle /\ EncodeIdle /\ ResolveIdle /\ Started /\ SerpRestIdle
    /\ \E n \in 1..MaxPlaces :
         \E names \in [1..n -> PlaceNames] :
            serp_list = [p \in 1..n |-> [place_id |-> p, query |-> QueryOf(names[p])]]
    /\ serp_ckpt = EmptyCheckpoint
    /\ serp_disk = NoFile
    /\ serp_remaining = <<>>
    /\ serp_pos = 0
    /\ serp_errors = 0
    /\ serp_pc = "stopped"

SerpFrame ==
    UNCHANGED <<searchVars, encodeVars, resolveVars, startupVars, serpFrame>>

\* lines 555-581: a run starts from the checkpoint on disk.  With nothing
\* remaining the run returns at once.
SerpStart ==
    /\ serp_pc = "stopped"
    /\ serp_disk.state # "corrupt"
    /\ LET ck == load_checkpoint(serp_disk)
           remaining == SelectSeq(serp_list,
                            LAMBDA r : \A p \in 1..Len(ck.processed) :
                                           ck.processed[p] # r.query)
       IN  /\ remaining # <<>>
           /\ serp_ckpt' = ck
           /\ serp_remaining' = remaining
    /\ serp_pos' = 0
    /\ serp_errors' = 0
    /\ serp_pc' = "running"
    /\ UNCHANGED <<serp_list, serp_disk>>
    /\ SerpFrame

\* The process is gone: what it held in memory is lost.
SerpStopped ==
    /\ serp_ckpt' = EmptyCheckpoint
    /\ serp_remaining' = <<>>
    /\ serp_pos' = 0
    /\ serp_errors' = 0
    /\ serp_pc' = "stopped"

\* lines 584-636: one iteration of the loop over `remaining`.
SerpIteration ==
    /\ serp_pc = "running"
    /\ serp_pos < Len(serp_remaining)
    /\ LET q == serp_remaining[serp_pos + 1].query
       IN  IF serp_errors >= MAX_CONSECUTIVE_ERRORS
           THEN /\ serp_pc' = "finishing"
                /\ UNCHANGED <<serp_ckpt, serp_disk, serp_remaining, serp_pos, serp_errors>>
           ELSE \E outcome \in {"result", "none", "api_error", "error", "interrupt"},
                   first_save, second_save \in {"ok", "fails"},
                   failed_file \in {serp_disk, CutShort},
                   counted \in BOOLEAN :
                \/ /\ outcome = "interrupt"
                   /\ serp_pc' = "finishing"
                   /\ UNCHANGED <<serp_ckpt, serp_disk, serp_remaining, serp_pos, serp_errors>>
                \/ /\ outcome \in {"result", "none"}
                   /\ first_save = "ok"
                   /\ serp_ckpt' = RecordOutcome(serp_ckpt, q, outcome = "result")
                   /\ serp_disk' = Written(serp_ckpt')
                   /\ serp_errors' = 0
                   /\ serp_pos' = serp_pos + 1
                   /\ UNCHANGED <<serp_remaining, serp_pc>>
                \/ /\ outcome \in {"result", "none"}
                   /\ first_save = "fails"
                   /\ second_save = "ok"
                   /\ serp_ckpt' = RecordError(RecordOutcome(serp_ckpt, q, outcome = "result"), q)
                   /\ serp_disk' = Written(serp_ckpt')
                   /\ serp_errors' = (IF counted THEN 1 ELSE 0)
                   /\ serp_pos' = serp_pos + 1
                   /\ UNCHANGED <<serp_remaining, serp_pc>>
                \/ /\ outcome \in {"api_error", "error"}
                   /\ first_save = "ok"
                   /\ serp_ckpt' = RecordError(serp_ckpt, q)
                   /\ serp_disk' = Written(serp_ckpt')
                   /\ serp_errors' = (IF outcome = "api_error" THEN serp_errors + 1
                                      ELSE serp_errors)
                   /\ serp_pos' = serp_pos + 1
                   /\ UNCHANGED <<serp_remaining, serp_pc>>
                \/ /\ \/ outcome \in {"result", "none"} /\ first_save = "fails"
                                                        /\ second_save = "fails"
                      \/ outcome \in {"api_error", "error"} /\ first_save = "fails"
                   /\ serp_disk' = failed_file
                   /\ SerpStopped
    /\ UNCHANGED serp_list
    /\ SerpFrame

\* lines 641-659: after the loop the results are written out and the run ends.
SerpFinish ==
    /\ \/ serp_pc = "finishing"
       \/ serp_pc = "running" /\ serp_pos = Len(serp_remaining)
    /\ SerpStopped
    /\ UNCHANGED <<serp_list, serp_disk>>
    /\ SerpFrame

\* The process is killed between two iterations.
SerpKill ==
    /\ serp_pc = "running"
    /\ SerpStopped
    /\ UNCHANGED <<serp_list, serp_disk>>
    /\ SerpFrame

SerpNext == SerpStart \/ SerpIteration \/ SerpFinish \/ SerpKill

SpecSerp == SerpInit /\ [][SerpNext]_vars

ElementsOf(s) == {s[p] : p \in 1..Len(s)}
NoRepeats(s) == \A a, b \in 1..Len(s) : a # b => s[a] # s[b]

\* C29: in every checkpoint written to disk, each query is at most once in
\* 'processed' and is in exactly one of 'results' and 'skipped', so that
\* len(processed) = len(results) + len(skipped); across successes, skips,
\* errors, failing checkpoint writes and interrupted and resumed runs.
C29_CheckpointConsistent ==
    serp_disk.state = "valid" =>
        /\ NoRepeats(serp_disk.processed)
        /\ NoRepeats(serp_disk.results)
        /\ NoRepeats(serp_disk.skipped)
        /\ ElementsOf(serp_disk.results) \cap ElementsOf(serp_disk.skipped) = {}
        /\ ElementsOf(serp_disk.results) \cup ElementsOf(serp_disk.skipped)
               = ElementsOf(serp_disk.processed)
        /\ Len(serp_disk.processed) = Len(serp_disk.results) + Len(serp_disk.skipped)


(***************************************************************************)
(* The hybrid scraper, main() of src/scripts/outscraper_hybrid_scraper.py, *)
(* lines 337-415.  A run loads the processed place ids from the checkpoint *)
(* file and the result entries from the results file, walks the whole      *)
(* restaurant list, and writes the results file and then the checkpoint    *)
(* at every tenth list position and after the loop.  A result entry is     *)
(* recorded here by its place_id; place_id 0 stands for a missing one.     *)
(* The list is deduplicated by place_id when it is fetched (lines          *)
(* 148-165).  The process can be killed between any two statements.        *)
(***************************************************************************)
MaxRuns == 3
SAVE_EVERY == 10

OutLists == {<<1>>, <<1, 2>>, [p \in 1..(SAVE_EVERY + 1) |-> p]}

OutInit ==
    /\ SearchIdle /\ EncodeIdle /\ ResolveIdle /\ Started /\ OutRestIdle
    /\ out_list \in OutLists
    /\ out_results = <<>>
    /\ out_processed = {}
    /\ out_file = <<>>
    /\ out_ckpt = {}
    /\ out_pos = 0
    /\ out_pc = "stopped"
    /\ out_runs = 0

OutFrame ==
    UNCHANGED <<searchVars, encodeVars, resolveVars, startupVars, outFrame>>

\* lines 337-343: processed = load_checkpoint(); results = json.load(..)
OutStart ==
    /\ out_pc = "stopped"
    /\ out_runs < MaxRuns
    /\ out_runs' = out_runs + 1
    /\ out_processed' = out_ckpt
    /\ out_results' = out_file
    /\ out_pos' = 0
    /\ out_pc' = "running"
    /\ UNCHANGED <<out_list, out_file, out_ckpt>>
    /\ OutFrame

\* The process is gone: what it held in memory is lost.
OutStopped ==
    /\ out_results' = <<>>
    /\ out_processed' = {}
    /\ out_pos' = 0
    /\ out_pc' = "stopped"

\* lines 349-354: entries without place_id or already processed are skipped.
OutSkips(place_id) == place_id = 0 \/ place_id \in out_processed

\* line 403: if idx % 10 == 0
SavesAt(idx) == idx % SAVE_EVERY = 0

\* lines 345-410: one iteration of the loop over the list.  When the
\* periodic save is due the results file is written first; the process may
\* be killed before save_checkpoint.
OutIteration ==
    /\ out_pc = "running"
    /\ out_pos < Len(out_list)
    /\ LET idx == out_pos + 1
           place_id == out_list[idx]
       IN  IF OutSkips(place_id)
           THEN /\ out_pos' = idx
                /\ UNCHANGED <<out_results, out_processed, out_file, out_ckpt, out_pc>>
           ELSE IF ~SavesAt(idx)
           THEN /\ out_results' = Append(out_results, place_id)
                /\ out_processed' = out_processed \cup {place_id}
                /\ out_pos' = idx
                /\ UNCHANGED <<out_file, out_ckpt, out_pc>>
           ELSE /\ out_file' = Append(out_results, place_id)
                /\ \/ /\ out_ckpt' = out_processed \cup {place_id}
                      /\ out_results' = Append(out_results, place_id)
                      /\ out_processed' = out_processed \cup {place_id}
                      /\ out_pos' = idx
                      /\ UNCHANGED out_pc
                   \/ /\ UNCHANGED out_ckpt
                      /\ OutStopped
    /\ UNCHANGED <<out_list, out_runs>>
    /\ OutFrame

\* lines 412-415: the final save, results file first; the process may be
\* killed before save_checkpoint.
OutFinalSave ==
    /\ out_pc = "running"
    /\ out_pos = Len(out_list)
    /\ out_file' = out_results
    /\ \/ out_ckpt' = out_processed
       \/ UNCHANGED out_ckpt
    /\ OutStopped
    /\ UNCHANGED <<out_list, out_runs>>
    /\ OutFrame

\* The process is killed during the loop (Ctrl-C is not caught).
OutKill ==
    /\ out_pc = "running"
    /\ OutStopped
    /\ UNCHANGED <<out_list, out_file, out_ckpt, out_runs>>
    /\ OutFrame

OutNext == OutStart \/ OutIteration \/ OutFinalSave \/ OutKill

SpecOut == OutInit /\ [][OutNext]_vars

\* C30: across runs, kills and resumes, the persisted results file never
\* holds two entries of one place_id, and every place_id in the persisted
\* checkpoint has an entry in the persisted results file.
C30_ResultsFileConsistent ==
    /\ NoRepeats(out_file)
    /\ out_ckpt \subseteq ElementsOf(out_file)

=============================================================================
